---- MODULE Spec2Model ----
(***************************************************************************)
(* Crowd-detection pipeline (YOLO_CROWD_DETECTION): the ROI registry       *)
(* (roi_module.py, driven by detects.py / app.py), the resilient stream    *)
(* source (FFmpegStreamer in detection_module.py) and the per-frame        *)
(* detection orchestrator with its cooldown-gated alert (detect in         *)
(* detection_module.py, restarted by app.py / detects.py).                 *)
(*                                                                         *)
(* Each component has its own specification over the shared variables:     *)
(*   SpecRoi     the registry and the two entry points that drive it       *)
(*   SpecPointer the same, on two starting files, with releases followed   *)
(*   SpecStream  FFmpegStreamer: reader thread, decoder, one caller        *)
(*   SpecAlert   detect() and the top-level restart loop                   *)
(*   SpecRegion  extract_roi_region applied to one polygon                 *)
(*   SpecCount   the counting of one ROI: region, detector, centre test    *)
(*   SpecSink    the web app's output slot, its writer and its consumers   *)
(*   SpecRender  draw_overlays applied to one registry and one result      *)
(* A specification leaves the variables of the other components unchanged. *)
(***************************************************************************)
EXTENDS Integers, Sequences, FiniteSets, TLC

VARIABLES
    \* ---- ROI registry: PolygonROIManager fields (roi_module.py:16-33)
    polygons,            \* list of polygons, each a list of points <<x, y>>
    roi_max_thresholds,  \* list of ints (or a JSON scalar after a corrupt load)
    current_polygon,     \* in-progress polygon
    edit_mode,
    drawing,
    selected_polygon,    \* 0-based index as in the code, -1 = none
    drag_point_index,
    input_mode,
    input_buffer,        \* typed digits, a sequence of characters as digit values
    input_prompt,        \* number of the ROI the prompt names, 0 = ""
    pending_polygon,     \* <<>> stands for None
    \* ---- the process that owns the registry, and roi_config.json
    app,                 \* "off" | "standalone" | "web"
    roi_file,            \* content of roi_config.json
    \* ---- wall clock, in seconds (time.time())
    now,
    \* ---- stream source: FFmpegStreamer fields (detection_module.py:87-97)
    running,
    thread,              \* "none" (None) | "set" (a Thread object)
    ffmpeg_process,      \* 0 = None, else the launch number of the Popen object
    latest_frame,        \* 0 = None, else the number of the decoded frame
    last_frame_time,
    is_reconnecting,
    \* ---- the reader thread (_reader_thread) and the decoder processes
    rpc,                 \* where the reader thread is; "none" = no thread yet
    chunk,               \* what stdout.read returned: a frame number, 0 = short
    wake,                \* when the reader's backoff sleep ends
    procs,               \* launch number -> "unborn" | "running" | "exited" | "reaped"
    pipe,                \* the full frame waiting on the decoder's stdout, 0 = none
    emitted,             \* frames the decoders have produced so far
    \* ---- the thread that calls start(), stop() and read()
    cpc,                 \* "idle" | "stop_terminate" | "stop_join" | "stopped"
    caller_exc,          \* exception that escaped a call, "none" if none
    read_ret,            \* what the last read() returned
    \* ---- detect() and its top-level caller (detection_module.py:242-380)
    dpc,                 \* where the detection thread is
    source_kind,         \* config.source: "url" | "numeric" | "file"
    ds,                  \* dataset: "none" | "started" | "files" | "stopped"
    last_global_alert_time,
    last_metadata_update_time,
    processed_frames,    \* modulo config.skip_frames
    roi_counts,
    total_detections,
    statuses,
    current_time,
    alert_fired,         \* the alert branch was taken for the frame in hand
    tick_effects,        \* what the tick in hand has done outside detect():
                         \* "count" (update_crowd_count), "heartbeat" or
                         \* "heartbeat failed" (insert_camera_data returned
                         \* True or False), "placeholder" or "annotated"
                         \* (the frame given to the output buffer)
    caller_wake,         \* when the caller's sleep before a retry ends
    side_effects,        \* each alert side effect: "idle", or where it runs
    \* ---- history of the process, kept for the properties only
    run,                 \* number of the current invocation of detect()
    last_alert,          \* when the last alert of the process fired
    last_alert_run,      \* the invocation that fired it, 0 = no alert yet
    same_run_pair,       \* the alert before it was fired by the same invocation
    \* ---- history of the pointer, kept for the properties only
    release_seen,        \* "yes": the step just taken delivered a button
                         \* release and a vertex is selected after it;
                         \* "no": it did not; "off": releases are not followed
    \* ---- one call of extract_roi_region (detection_utils.py:71-90)
    ex_polygon,          \* the polygon argument
    ex_region,           \* <<what the call returned>>, <<>> before it has
    \* ---- counting one ROI of one frame (detection_module.py:287-301)
    ct_polygon,          \* the ROI's polygon
    ct_pc,               \* "extract" | "detect" | "centres" | "tally" | "done"
    ct_region,           \* what extract_roi_region returned
    ct_failed,           \* the detector raised inside detect_in_roi
    ct_left,             \* detections the for loop has still to visit
    ct_det,              \* the detection being visited, <<>> between visits
    ct_hit,              \* point_in_polygon's answer for it
    ct_count,            \* count
    \* ---- the output sink of the web app (app.py:32-33, 76-95)
    output_frame,        \* the slot: a frame as <<upper half, lower half>>,
                         \* each half stamped with the frame's number; <<0, 0>> = None
    lock,                \* who holds the lock: "free" | "writer" | "consumer"
    sink_pc,             \* the detection thread inside set_output_frame
    sink_frame,          \* number of the frame it was called with
    gen_pc,              \* each consumer inside generate_video_stream
    encodedImage,        \* what each consumer encoded last
    yielded,             \* what each consumer sent to its client last
    \* ---- one call of draw_overlays (roi_module.py:134-165)
    rd_counts,           \* the roi_counts it was called with
    rd_frame             \* the layers drawn on the frame it returned

roiVars == <<polygons, roi_max_thresholds, current_polygon, edit_mode, drawing,
             selected_polygon, drag_point_index, input_mode, input_buffer,
             input_prompt, pending_polygon, app, roi_file>>

streamVars == <<running, thread, ffmpeg_process, latest_frame, last_frame_time,
                is_reconnecting, rpc, chunk, wake, procs, pipe, emitted, cpc,
                caller_exc, read_ret>>

alertVars == <<dpc, source_kind, ds, last_global_alert_time,
               last_metadata_update_time, processed_frames, roi_counts,
               total_detections, statuses, current_time, alert_fired,
               tick_effects,
               caller_wake, side_effects, run, last_alert, last_alert_run,
               same_run_pair>>

regionVars == <<ex_polygon, ex_region>>

countVars == <<ct_polygon, ct_pc, ct_region, ct_failed, ct_left, ct_det,
               ct_hit, ct_count>>

sinkVars == <<output_frame, lock, sink_pc, sink_frame, gen_pc, encodedImage,
              yielded>>

renderVars == <<rd_counts, rd_frame>>

vars == <<roiVars, release_seen, now, streamVars, alertVars, regionVars, countVars,
          sinkVars, renderVars>>

\* What the actions of one component leave alone.
outsideRoi ==
    <<now, streamVars, alertVars, regionVars, countVars, sinkVars, renderVars>>
outsideStream ==
    <<roiVars, release_seen, alertVars, regionVars, countVars, sinkVars, renderVars>>
outsideAlert ==
    <<roiVars, release_seen, now, streamVars, regionVars, countVars, sinkVars, renderVars>>
outsideRegion ==
    <<roiVars, release_seen, now, streamVars, alertVars, countVars, sinkVars, renderVars>>
outsideSink ==
    <<roiVars, release_seen, now, streamVars, alertVars, regionVars, countVars, renderVars>>
outsideCount ==
    <<roiVars, release_seen, now, streamVars, alertVars, regionVars, sinkVars, renderVars>>

(***************************************************************************)
(* Bounds of the model.                                                    *)
(***************************************************************************)
\* Vertices the registry may hold when one more is added by drawing (committed
\* polygons and the polygon in progress together); a loaded registry may hold more.
MaxVertices == 3
\* Digits the input buffer may hold.
MaxDigits == 1

(***************************************************************************)
(* Pointer positions and keys the environment can produce.                 *)
(***************************************************************************)
\* Pixels the pointer visits: two that are farther apart than the pick radius.
Positions == {<<0, 0>>, <<40, 40>>}

\* cv2.waitKey(1) & 0xFF: Enter, Backspace, Escape, '5', 'e', 's', 'c', 'q',
\* a letter with no binding, and 255 (no key pressed).
Keys == {13, 8, 27, 53, 101, 115, 99, 113, 120, 255}

(***************************************************************************)
(* Python values that are not lists.                                       *)
(***************************************************************************)
\* A JSON number held where a list is expected: a function on {0}, so that it
\* is never equal to a sequence.
Scalar(n) == [i \in {0} |-> n]
IsList(v) == 0 \notin DOMAIN v

(***************************************************************************)
(* roi_config.json                                                         *)
(***************************************************************************)
JAbsent == [kind |-> "absent", items |-> <<>>, val |-> 0]
JList(s) == [kind |-> "list", items |-> s, val |-> 0]
JInt(n) == [kind |-> "int", items |-> <<>>, val |-> n]

FileMissing == [kind |-> "missing", polygons |-> JAbsent, max_thresholds |-> JAbsent]
FileGarbage == [kind |-> "garbage", polygons |-> JAbsent, max_thresholds |-> JAbsent]
FileObject(p, t) == [kind |-> "object", polygons |-> p, max_thresholds |-> t]

Triangle == << <<0, 0>>, <<40, 40>>, <<40, 40>> >>

\* What may be on disk when a process first starts: nothing, a file that is
\* not JSON, and JSON objects, well formed or edited by hand.
InitialFiles ==
    { FileMissing,
      FileGarbage,
      FileObject(JAbsent, JAbsent),
      FileObject(JList(<<Triangle>>), JList(<<5>>)),
      FileObject(JList(<<Triangle>>), JList(<<>>)),
      FileObject(JAbsent, JList(<<5>>)),
      FileObject(JList(<<Triangle, Triangle>>), JList(<<5>>)),
      FileObject(JList(<<Triangle>>), JInt(50)) }

\* json.dump of an attribute: a list is written as a JSON array, an int as a
\* JSON number.
ToJson(v) == IF IsList(v) THEN JList(v) ELSE JInt(v[0])

\* config.get(key, []) of the loaded object.
FromJson(j) ==
    CASE j.kind = "absent" -> <<>>
      [] j.kind = "list" -> j.items
      [] OTHER -> Scalar(j.val)

(***************************************************************************)
(* Time                                                                    *)
(***************************************************************************)
\* time.time() when the model starts: seconds since the epoch, which is far
\* more than any interval the code compares against.
StartTime == 121
\* Seconds the clock advances in one step of the stream specification, and how
\* long that specification is followed.
StreamTick == 5
StreamHorizon == 20

\* What an alert sets off besides the log line (detection_module.py:331-352):
\* the screenshot written to disk, its upload, the entry pushed onto the alert
\* queue, and the email.
SideEffects == {"persist", "upload", "enqueue", "email"}

\* detect() has not been called.
DetectIdle ==
    /\ source_kind = "url"
    /\ dpc = "invoke"
    /\ ds = "none"
    /\ last_global_alert_time = 0
    /\ last_metadata_update_time = 0
    /\ processed_frames = 0
    /\ roi_counts = <<>>
    /\ total_detections = 0
    /\ statuses = <<>>
    /\ current_time = 0
    /\ alert_fired = FALSE
    /\ tick_effects = {}
    /\ caller_wake = 0
    /\ side_effects = [e \in SideEffects |-> "idle"]
    /\ run = 0
    /\ last_alert = 0
    /\ last_alert_run = 0
    /\ same_run_pair = FALSE

\* extract_roi_region has not been called.
RegionIdle ==
    /\ ex_polygon = <<>>
    /\ ex_region = <<>>

\* No ROI is being counted.
CountIdle ==
    /\ ct_polygon = <<>>
    /\ ct_pc = "done"
    /\ ct_region = <<>>
    /\ ct_failed = FALSE
    /\ ct_left = 0
    /\ ct_det = <<>>
    /\ ct_hit = FALSE
    /\ ct_count = 0

\* The output sink is followed through MaxEmits frames and MaxConsumers
\* clients of /video_feed.
MaxEmits == 3
MaxConsumers == 2
Consumers == 1..MaxConsumers
NoFrame == <<0, 0>>

\* No frame has been rendered.
RenderIdle ==
    /\ rd_counts = <<>>
    /\ rd_frame = {}

\* The module-level state of app.py before any frame or client.
SinkIdle ==
    /\ output_frame = NoFrame
    /\ lock = "free"
    /\ sink_pc = "idle"
    /\ sink_frame = 0
    /\ gen_pc = [c \in Consumers |-> "off"]
    /\ encodedImage = [c \in Consumers |-> NoFrame]
    /\ yielded = [c \in Consumers |-> NoFrame]

(***************************************************************************)
(* FFmpegStreamer (detection_module.py)                                    *)
(***************************************************************************)
MaxLaunches == 2
MaxFrames == 2

STALL_TIMEOUT == 10
RECONNECT_BACKOFF == 5

Launches == 1..MaxLaunches

\* __init__
StreamConstructed ==
    /\ running = FALSE
    /\ thread = "none"
    /\ ffmpeg_process = 0
    /\ latest_frame = 0
    /\ last_frame_time = 0
    /\ is_reconnecting = FALSE
    /\ rpc = "none"
    /\ chunk = 0
    /\ wake = 0
    /\ procs = [i \in Launches |-> "unborn"]
    /\ pipe = 0
    /\ emitted = 0
    /\ cpc = "idle"
    /\ caller_exc = "none"
    /\ read_ret = [called |-> FALSE, live |-> FALSE, frame |-> "none", base |-> 0]

\* The reader thread is executing _reader_thread.
ReaderAlive == rpc \notin {"none", "done", "crashed"}

\* Popen.terminate(): a process that still runs is signalled and exits; one
\* that has ended is left alone.
Terminated(ps, i) ==
    IF ps[i] = "running" THEN [ps EXCEPT ![i] = "exited"] ELSE ps

\* Popen.wait() after terminate(): the process is reaped.
Reaped(ps, i) == [ps EXCEPT ![i] = "reaped"]

\* ---- _reader_thread, statement by statement ----------------------------

\* while self.running:                                  (line 162)
ReaderLoop ==
    /\ rpc = "loop"
    /\ rpc' = IF running THEN "mark" ELSE "done"
    /\ UNCHANGED <<outsideStream, now, running, thread, ffmpeg_process, latest_frame, last_frame_time,
                   is_reconnecting, chunk, wake, procs, pipe, emitted, cpc, caller_exc,
                   read_ret>>

\* with self.lock: self.is_reconnecting = True          (lines 166-167)
ReaderMark ==
    /\ rpc = "mark"
    /\ is_reconnecting' = TRUE
    /\ rpc' = "popen"
    /\ UNCHANGED <<outsideStream, now, running, thread, ffmpeg_process, latest_frame, last_frame_time,
                   chunk, wake, procs, pipe, emitted, cpc, caller_exc, read_ret>>

\* self.ffmpeg_process = subprocess.Popen(...)          (lines 169-172)
ReaderPopen ==
    /\ rpc = "popen"
    /\ \E n \in Launches :
         /\ procs[n] = "unborn"
         /\ \A m \in Launches : m < n => procs[m] # "unborn"
         /\ procs' = [procs EXCEPT ![n] = "running"]
         /\ ffmpeg_process' = n
    /\ pipe' = 0
    /\ rpc' = "stamp"
    /\ UNCHANGED <<outsideStream, now, running, thread, latest_frame, last_frame_time, is_reconnecting,
                   chunk, wake, emitted, cpc, caller_exc, read_ret>>

\* _build_ffmpeg_command raises FileNotFoundError (no ffmpeg executable) or
\* Popen raises: the exception ends the thread.         (lines 102, 169)
ReaderPopenRaises ==
    /\ rpc = "popen"
    /\ rpc' = "crashed"
    /\ UNCHANGED <<outsideStream, now, running, thread, ffmpeg_process, latest_frame, last_frame_time,
                   is_reconnecting, chunk, wake, procs, pipe, emitted, cpc, caller_exc,
                   read_ret>>

\* self.last_frame_time = time.time()                   (line 175)
ReaderStamp ==
    /\ rpc = "stamp"
    /\ last_frame_time' = now
    /\ rpc' = "inner"
    /\ UNCHANGED <<outsideStream, now, running, thread, ffmpeg_process, latest_frame, is_reconnecting,
                   chunk, wake, procs, pipe, emitted, cpc, caller_exc, read_ret>>

\* while self.running and self.ffmpeg_process.poll() is None:   (line 177)
\* poll() reaps a process that has exited.
ReaderInner ==
    /\ rpc = "inner"
    /\ IF ~running
       THEN /\ rpc' = "cleanup"
            /\ UNCHANGED procs
       ELSE IF procs[ffmpeg_process] = "running"
            THEN /\ rpc' = "stall"
                 /\ UNCHANGED procs
            ELSE /\ rpc' = "cleanup"
                 /\ procs' = Reaped(procs, ffmpeg_process)
    /\ UNCHANGED <<outsideStream, now, running, thread, ffmpeg_process, latest_frame, last_frame_time,
                   is_reconnecting, chunk, wake, pipe, emitted, cpc, caller_exc,
                   read_ret>>

\* if time.time() - self.last_frame_time > 10: break    (lines 179-181)
StallDetected == now - last_frame_time > STALL_TIMEOUT

ReaderStall ==
    /\ rpc = "stall"
    /\ rpc' = IF StallDetected THEN "cleanup" ELSE "read"
    /\ UNCHANGED <<outsideStream, now, running, thread, ffmpeg_process, latest_frame, last_frame_time,
                   is_reconnecting, chunk, wake, procs, pipe, emitted, cpc, caller_exc,
                   read_ret>>

\* chunk = self.ffmpeg_process.stdout.read(bytes_per_frame)     (line 184)
\* A buffered read of a pipe returns when it has bytes_per_frame bytes or the
\* writer has closed its end; until then it blocks.
ReaderRead ==
    /\ rpc = "read"
    /\ \/ /\ pipe # 0
          /\ chunk' = pipe
          /\ pipe' = 0
       \/ /\ pipe = 0
          /\ procs[ffmpeg_process] # "running"
          /\ chunk' = 0
          /\ UNCHANGED pipe
    /\ rpc' = "got"
    /\ UNCHANGED <<outsideStream, now, running, thread, ffmpeg_process, latest_frame, last_frame_time,
                   is_reconnecting, wake, procs, emitted, cpc, caller_exc, read_ret>>

\* if len(chunk) == bytes_per_frame: with self.lock: ...        (lines 186-191)
ReaderStore_KeepsFlag ==
    /\ latest_frame' = chunk
    /\ last_frame_time' = now
    /\ UNCHANGED is_reconnecting
ReaderStore ==
    /\ is_reconnecting' = FALSE
    /\ latest_frame' = chunk
    /\ last_frame_time' = now

ReaderGotFrame ==
    /\ rpc = "got"
    /\ chunk # 0
    /\ ReaderStore
    /\ rpc' = "inner"
    /\ UNCHANGED <<outsideStream, now, running, thread, ffmpeg_process, chunk, wake, procs, pipe,
                   emitted, cpc, caller_exc, read_ret>>

\* else: time.sleep(0.01)                               (lines 192-194)
ReaderShortRead ==
    /\ rpc = "got"
    /\ chunk = 0
    /\ rpc' = "inner"
    /\ UNCHANGED <<outsideStream, now, running, thread, ffmpeg_process, latest_frame, last_frame_time,
                   is_reconnecting, chunk, wake, procs, pipe, emitted, cpc, caller_exc,
                   read_ret>>

\* if self.ffmpeg_process: terminate(); wait()          (lines 197-199)
ReaderCleanup == procs' = Reaped(Terminated(procs, ffmpeg_process), ffmpeg_process)

ReaderCleanupStep ==
    /\ rpc = "cleanup"
    /\ ReaderCleanup
    /\ pipe' = 0
    /\ rpc' = "mark2"
    /\ UNCHANGED <<outsideStream, now, running, thread, ffmpeg_process, latest_frame, last_frame_time,
                   is_reconnecting, chunk, wake, emitted, cpc, caller_exc, read_ret>>

\* with self.lock: self.is_reconnecting = True          (lines 202-203)
ReaderMark2_SkipsFlag ==
    /\ rpc = "mark2"
    /\ rpc' = "chk"
    /\ UNCHANGED <<outsideStream, now, running, thread, ffmpeg_process, latest_frame, last_frame_time,
                   is_reconnecting, chunk, wake, procs, pipe, emitted, cpc, caller_exc,
                   read_ret>>
ReaderMark2 ==
    /\ rpc = "mark2"
    /\ is_reconnecting' = TRUE
    /\ rpc' = "chk"
    /\ UNCHANGED <<outsideStream, now, running, thread, ffmpeg_process, latest_frame, last_frame_time,
                   chunk, wake, procs, pipe, emitted, cpc, caller_exc, read_ret>>

\* if self.running: time.sleep(5)                       (lines 205-207)
ReaderBackoff ==
    /\ rpc = "chk"
    /\ IF running
       THEN /\ rpc' = "backoff"
            /\ wake' = now + RECONNECT_BACKOFF
       ELSE /\ rpc' = "loop"
            /\ UNCHANGED wake
    /\ UNCHANGED <<outsideStream, now, running, thread, ffmpeg_process, latest_frame, last_frame_time,
                   is_reconnecting, chunk, procs, pipe, emitted, cpc, caller_exc,
                   read_ret>>

\* the sleep returns
ReaderWake ==
    /\ rpc = "backoff"
    /\ now >= wake
    /\ rpc' = "loop"
    /\ UNCHANGED <<outsideStream, now, running, thread, ffmpeg_process, latest_frame, last_frame_time,
                   is_reconnecting, chunk, wake, procs, pipe, emitted, cpc, caller_exc,
                   read_ret>>

ReaderStep ==
    \/ ReaderLoop
    \/ ReaderMark
    \/ ReaderPopen
    \/ ReaderPopenRaises
    \/ ReaderStamp
    \/ ReaderInner
    \/ ReaderStall
    \/ ReaderRead
    \/ ReaderGotFrame
    \/ ReaderShortRead
    \/ ReaderCleanupStep
    \/ ReaderMark2
    \/ ReaderBackoff
    \/ ReaderWake

\* ---- the decoder subprocess (ffmpeg), as the reader sees it -------------

\* The running decoder writes one more full frame to its stdout.
DecoderEmit ==
    /\ ffmpeg_process # 0
    /\ procs[ffmpeg_process] = "running"
    /\ pipe = 0
    /\ emitted < MaxFrames                                  \* bound
    /\ emitted' = emitted + 1
    /\ pipe' = emitted + 1
    /\ UNCHANGED <<outsideStream, now, running, thread, ffmpeg_process, latest_frame, last_frame_time,
                   is_reconnecting, rpc, chunk, wake, procs, cpc, caller_exc, read_ret>>

\* The running decoder exits on its own (the camera or the network is gone).
DecoderExit ==
    /\ ffmpeg_process # 0
    /\ procs[ffmpeg_process] = "running"
    /\ procs' = [procs EXCEPT ![ffmpeg_process] = "exited"]
    /\ UNCHANGED <<outsideStream, now, running, thread, ffmpeg_process, latest_frame, last_frame_time,
                   is_reconnecting, rpc, chunk, wake, pipe, emitted, cpc, caller_exc,
                   read_ret>>

\* ---- start(), stop(), read() --------------------------------------------

\* start()                                              (lines 209-213)
start ==
    /\ cpc \in {"idle", "stopped"}
    /\ caller_exc = "none"
    /\ IF running
       THEN UNCHANGED <<running, thread, rpc>>
       ELSE /\ running' = TRUE
            /\ thread' = "set"
            /\ rpc' = "loop"
    /\ cpc' = "idle"
    /\ UNCHANGED <<outsideStream, now, ffmpeg_process, latest_frame, last_frame_time, is_reconnecting,
                   chunk, wake, procs, pipe, emitted, caller_exc, read_ret>>

\* stop(): self.running = False                         (line 216)
StopSetRunning ==
    /\ cpc \in {"idle", "stopped"}
    /\ caller_exc = "none"
    /\ running' = FALSE
    /\ cpc' = "stop_terminate"
    /\ UNCHANGED <<outsideStream, now, thread, ffmpeg_process, latest_frame, last_frame_time,
                   is_reconnecting, rpc, chunk, wake, procs, pipe, emitted, caller_exc,
                   read_ret>>

\* stop(): if self.ffmpeg_process: self.ffmpeg_process.terminate()   (lines 217-218)
StopTerminate ==
    /\ cpc = "stop_terminate"
    /\ procs' = IF ffmpeg_process # 0 THEN Terminated(procs, ffmpeg_process) ELSE procs
    /\ cpc' = "stop_join"
    /\ UNCHANGED <<outsideStream, now, running, thread, ffmpeg_process, latest_frame, last_frame_time,
                   is_reconnecting, rpc, chunk, wake, pipe, emitted, caller_exc, read_ret>>

\* stop(): if self.thread: self.thread.join()           (lines 219-220)
\* join() returns once the thread has ended; None has no join.
StopGuardsThread_Missing == TRUE
StopGuardsThread == thread # "none"

JoinWaits_Never == FALSE
JoinWaits == ReaderAlive

StopJoin ==
    /\ cpc = "stop_join"
    /\ IF StopGuardsThread
       THEN IF thread = "none"
            THEN /\ caller_exc' = "AttributeError"
                 /\ cpc' = "idle"
            ELSE /\ ~JoinWaits
                 /\ cpc' = "stopped"
                 /\ UNCHANGED caller_exc
       ELSE /\ cpc' = "stopped"
            /\ UNCHANGED caller_exc
    /\ UNCHANGED <<outsideStream, now, running, thread, ffmpeg_process, latest_frame, last_frame_time,
                   is_reconnecting, rpc, chunk, wake, procs, pipe, emitted, read_ret>>

\* read(): the pair it returns in the current state.     (lines 222-236)
\* Under the lock it samples is_reconnecting and a copy of latest_frame; a
\* reconnecting source returns the overlay drawn on that copy, or on a black
\* canvas when there is none.
ReadResult ==
    IF is_reconnecting
    THEN [called |-> TRUE, live |-> FALSE, frame |-> "overlay", base |-> latest_frame]
    ELSE [called |-> TRUE, live |-> TRUE,
          frame |-> IF latest_frame # 0 THEN "frame" ELSE "none",
          base |-> latest_frame]

read ==
    /\ cpc \in {"idle", "stopped"}
    /\ caller_exc = "none"
    /\ read_ret' = ReadResult
    /\ cpc' = "idle"
    /\ UNCHANGED <<outsideStream, now, running, thread, ffmpeg_process, latest_frame, last_frame_time,
                   is_reconnecting, rpc, chunk, wake, procs, pipe, emitted, caller_exc>>

\* The clock advances.
StreamClock ==
    /\ now + StreamTick <= StartTime + StreamHorizon        \* bound
    /\ now' = now + StreamTick
    /\ UNCHANGED <<outsideStream, streamVars>>

InitStream ==
    /\ polygons = <<>>
    /\ roi_max_thresholds = <<>>
    /\ current_polygon = <<>>
    /\ edit_mode = FALSE
    /\ drawing = FALSE
    /\ selected_polygon = -1
    /\ drag_point_index = -1
    /\ input_mode = FALSE
    /\ input_buffer = <<>>
    /\ input_prompt = 0
    /\ pending_polygon = <<>>
    /\ release_seen = "off"
    /\ app = "off"
    /\ roi_file = FileMissing
    /\ now = StartTime
    /\ StreamConstructed
    /\ DetectIdle
    /\ RegionIdle
    /\ CountIdle
    /\ SinkIdle
    /\ RenderIdle

NextStream ==
    \/ ReaderLoop
    \/ ReaderMark
    \/ ReaderPopen
    \/ ReaderPopenRaises
    \/ ReaderStamp
    \/ ReaderInner
    \/ ReaderStall
    \/ ReaderRead
    \/ ReaderGotFrame
    \/ ReaderShortRead
    \/ ReaderCleanupStep
    \/ ReaderMark2
    \/ ReaderBackoff
    \/ ReaderWake
    \/ DecoderEmit
    \/ DecoderExit
    \/ start
    \/ StopSetRunning
    \/ StopTerminate
    \/ StopJoin
    \/ read
    \/ StreamClock

SpecStream == InitStream /\ [][NextStream]_vars

\* Threads are scheduled whenever they can run (the reader thread, and the
\* caller inside a stop() it has begun), and time passes.
SpecStreamFair ==
    /\ SpecStream
    /\ WF_vars(ReaderStep)
    /\ WF_vars(StopTerminate)
    /\ WF_vars(StopJoin)
    /\ WF_vars(StreamClock)

(***************************************************************************)
(* Claims about the stream source                                          *)
(***************************************************************************)
InnerLoop == {"inner", "stall", "read", "got"}

\* C4: read() on a started source never returns a null frame, also before the
\* reader thread has decoded (or done) anything.
C4_ReadNeverNull == running => ReadResult.frame # "none"

\* C5: when the reader waits for a frame from a decoder that is alive and has
\* delivered nothing for longer than the stall timeout, the decoder is given
\* up: the reader breaks out and terminates it, and read() comes to report
\* isLive = false.
C5_StallIsBrokenOff ==
    \A i \in Launches :
        (/\ ffmpeg_process = i
         /\ procs[i] = "running"
         /\ pipe = 0
         /\ rpc = "read"
         /\ now - last_frame_time > STALL_TIMEOUT)
          ~> (procs[i] # "running" /\ ~ReadResult.live)

\* C6: the step in which the reader stores a full frame leaves the source
\* live: a read() taken right after it returns isLive = true with that very
\* frame, and the staleness timer restarts in the same step.
C6_FullFrameMakesLive ==
    [][(rpc = "got" /\ chunk # 0 /\ rpc' = "inner")
         => (/\ ReadResult' = [called |-> TRUE, live |-> TRUE,
                               frame |-> "frame", base |-> chunk]
             /\ last_frame_time' = now)]_vars

\* C6 witness: the second decoder (so after an outage) has delivered a frame
\* and the last read() returned it as live.
C6_Witness ==
    /\ ffmpeg_process = 2
    /\ rpc \in InnerLoop
    /\ ~is_reconnecting
    /\ latest_frame = chunk
    /\ read_ret.live
    /\ read_ret.frame = "frame"
    /\ read_ret.base = latest_frame

\* C7: once stop() has returned the reader thread has ended and every decoder
\* this source launched has been terminated and reaped.
C7_StopLeavesNothingBehind ==
    cpc = "stopped"
      => (/\ ~ReaderAlive
          /\ \A i \in Launches : procs[i] \in {"unborn", "reaped"})

\* C7 witness: stop() has returned after the source had reconnected once.
C7_Witness ==
    /\ cpc = "stopped"
    /\ rpc = "done"
    /\ procs[1] = "reaped"
    /\ procs[2] = "reaped"

\* The source is stopped: not running, no reader thread at work, no decoder.
Stopped ==
    /\ ~running
    /\ ~ReaderAlive
    /\ \A i \in Launches : procs[i] \in {"unborn", "reaped"}

\* C8: every step of a stop() called on a stopped source (after an earlier
\* stop() returned, or before start()) raises nothing and changes nothing.
C8_StopIsIdempotent ==
    [][(Stopped /\ (StopSetRunning \/ StopTerminate \/ StopJoin))
         => (/\ Stopped'
             /\ caller_exc' = "none"
             /\ UNCHANGED <<running, thread, ffmpeg_process, latest_frame,
                            last_frame_time, is_reconnecting, rpc, procs>>)]_vars

\* C8 witness: stop() has returned on a source that was never started.
C8_Witness ==
    /\ cpc = "stopped"
    /\ thread = "none"
    /\ caller_exc = "none"

(***************************************************************************)
(* PolygonROIManager (roi_module.py)                                       *)
(***************************************************************************)
DefaultThreshold == 50

\* int(self.input_buffer) for a buffer of decimal digits.
RECURSIVE PyInt(_)
PyInt(buf) ==
    IF buf = <<>> THEN 0
    ELSE 10 * PyInt(SubSeq(buf, 1, Len(buf) - 1)) + buf[Len(buf)]

\* Number of vertices of a list of polygons.
RECURSIVE VertexCount(_)
VertexCount(ps) ==
    IF ps = <<>> THEN 0 ELSE Len(ps[1]) + VertexCount(Tail(ps))

\* The vertices of committed polygons within the pick radius of (x, y), as
\* 0-based <<poly_idx, point_idx>> pairs: sqrt(dx^2 + dy^2) < 10.
Hits(p) ==
    { h \in (0..(Len(polygons) - 1)) \X (0..(MaxVertices + 2)) :
        /\ h[2] < Len(polygons[h[1] + 1])
        /\ LET v == polygons[h[1] + 1][h[2] + 1] IN
           (p[1] - v[1]) * (p[1] - v[1]) + (p[2] - v[2]) * (p[2] - v[2]) < 10 * 10 }

\* The first hit in the order of the two nested loops.
FirstHit(p) ==
    CHOOSE h \in Hits(p) :
        \A g \in Hits(p) : h[1] < g[1] \/ (h[1] = g[1] /\ h[2] <= g[2])

cancel_input_KeepsPending ==
    /\ input_mode' = FALSE
    /\ input_buffer' = <<>>
    /\ input_prompt' = 0
    /\ UNCHANGED pending_polygon

\* cancel_input()
cancel_input ==
    /\ input_mode' = FALSE
    /\ input_buffer' = <<>>
    /\ input_prompt' = 0
    /\ pending_polygon' = <<>>

\* The state __init__ leaves.
Constructed ==
    /\ polygons' = <<>>
    /\ roi_max_thresholds' = <<>>
    /\ current_polygon' = <<>>
    /\ edit_mode' = FALSE
    /\ drawing' = FALSE
    /\ selected_polygon' = -1
    /\ drag_point_index' = -1
    /\ cancel_input

\* "Disable mouse actions while getting user input": the early return of
\* mouse_callback.
MouseDisabled_IgnoresEditMode == input_mode
MouseDisabled_IgnoresInput == ~edit_mode
MouseDisabled == ~edit_mode \/ input_mode

\* The condition of the right-click branch (line 61).
ClosesPolygon_AnyLength(event) == event = "RBUTTONDOWN" /\ drawing
ClosesPolygon(event) ==
    event = "RBUTTONDOWN" /\ drawing /\ Len(current_polygon) >= 3

\* mouse_callback(event, x, y, flags, param)
mouse_callback(event, p) ==
    IF MouseDisabled
    THEN UNCHANGED roiVars
    ELSE
      CASE event = "LBUTTONDOWN" ->
             IF ~drawing
             THEN IF Hits(p) # {}
                  THEN /\ selected_polygon' = FirstHit(p)[1]
                       /\ drag_point_index' = FirstHit(p)[2]
                       /\ UNCHANGED <<polygons, roi_max_thresholds, current_polygon,
                                      edit_mode, drawing, input_mode, input_buffer,
                                      input_prompt, pending_polygon, app, roi_file>>
                  ELSE /\ VertexCount(polygons) < MaxVertices \* bound
                       /\ current_polygon' = <<p>>
                       /\ drawing' = TRUE
                       /\ UNCHANGED <<polygons, roi_max_thresholds, edit_mode,
                                      selected_polygon, drag_point_index, input_mode,
                                      input_buffer, input_prompt, pending_polygon,
                                      app, roi_file>>
             ELSE /\ VertexCount(polygons) + Len(current_polygon) < MaxVertices \* bound
                  /\ current_polygon' = Append(current_polygon, p)
                  /\ UNCHANGED <<polygons, roi_max_thresholds, edit_mode, drawing,
                                 selected_polygon, drag_point_index, input_mode,
                                 input_buffer, input_prompt, pending_polygon,
                                 app, roi_file>>
        [] ClosesPolygon(event) ->
             /\ pending_polygon' = current_polygon
             /\ current_polygon' = <<>>
             /\ drawing' = FALSE
             /\ input_mode' = TRUE
             /\ input_prompt' = Len(polygons) + 1
             /\ input_buffer' = <<>>
             /\ UNCHANGED <<polygons, roi_max_thresholds, edit_mode, selected_polygon,
                            drag_point_index, app, roi_file>>
        [] event = "MOUSEMOVE" /\ selected_polygon # -1
             /\ ~ClosesPolygon(event) ->
             \* self.polygons[sel][idx] = (x, y); an index out of range raises
             \* IndexError out of the callback and nothing is assigned.
             IF /\ selected_polygon < Len(polygons)
                /\ drag_point_index < Len(polygons[selected_polygon + 1])
             THEN /\ polygons' = [polygons EXCEPT
                                    ![selected_polygon + 1][drag_point_index + 1] = p]
                  /\ UNCHANGED <<roi_max_thresholds, current_polygon, edit_mode, drawing,
                                 selected_polygon, drag_point_index, input_mode,
                                 input_buffer, input_prompt, pending_polygon,
                                 app, roi_file>>
             ELSE UNCHANGED roiVars
        [] event = "LBUTTONUP" ->
             /\ selected_polygon' = -1
             /\ drag_point_index' = -1
             /\ UNCHANGED <<polygons, roi_max_thresholds, current_polygon, edit_mode,
                            drawing, input_mode, input_buffer, input_prompt,
                            pending_polygon, app, roi_file>>
        [] OTHER -> UNCHANGED roiVars

\* handle_key_input(key)
handle_key_input(key) ==
    IF ~input_mode
    THEN UNCHANGED roiVars
    ELSE
      CASE key = 13 ->
             LET threshold == IF input_buffer # <<>> THEN PyInt(input_buffer)
                                                     ELSE DefaultThreshold IN
             /\ VertexCount(polygons) + Len(pending_polygon) <= MaxVertices \* bound
             /\ polygons' = Append(polygons, pending_polygon)
             /\ IF IsList(roi_max_thresholds)
                THEN /\ roi_max_thresholds' = Append(roi_max_thresholds, threshold)
                     /\ cancel_input
                ELSE \* an int has no append: AttributeError leaves the handler
                     UNCHANGED <<roi_max_thresholds, input_mode, input_buffer,
                                 input_prompt, pending_polygon>>
             /\ UNCHANGED <<current_polygon, edit_mode, drawing, selected_polygon,
                            drag_point_index, app, roi_file>>
        [] key = 8 ->
             /\ input_buffer' = SubSeq(input_buffer, 1, Len(input_buffer) - 1)
             /\ UNCHANGED <<polygons, roi_max_thresholds, current_polygon, edit_mode,
                            drawing, selected_polygon, drag_point_index, input_mode,
                            input_prompt, pending_polygon, app, roi_file>>
        [] key = 27 ->
             /\ cancel_input
             /\ UNCHANGED <<polygons, roi_max_thresholds, current_polygon, edit_mode,
                            drawing, selected_polygon, drag_point_index, app, roi_file>>
        [] 32 <= key /\ key < 127 /\ 48 <= key /\ key <= 57 ->
             /\ Len(input_buffer) < MaxDigits               \* bound
             /\ input_buffer' = Append(input_buffer, key - 48)
             /\ UNCHANGED <<polygons, roi_max_thresholds, current_polygon, edit_mode,
                            drawing, selected_polygon, drag_point_index, input_mode,
                            input_prompt, pending_polygon, app, roi_file>>
        [] OTHER -> UNCHANGED roiVars

\* save_config(filename): what json.dump writes.
SavedFile_WithoutThresholds == FileObject(ToJson(polygons), JAbsent)
SavedFile == FileObject(ToJson(polygons), ToJson(roi_max_thresholds))

\* load_config(filename) run on a registry holding polygons p0 and thresholds
\* t0: the registry's polygons and thresholds afterwards, and the line logged
\* on the way out ("info" line 253, "mismatch" 252-253, "missing" 255,
\* "error" 257).  No exception leaves load_config: both handlers only log.
load_config_NoReset(f, p0, t0) ==
    IF f.kind # "object"
    THEN [polygons |-> p0, roi_max_thresholds |-> t0,
          log |-> IF f.kind = "missing" THEN "missing" ELSE "error"]
    ELSE [polygons |-> FromJson(f.polygons),
          roi_max_thresholds |-> FromJson(f.max_thresholds),
          log |-> "info"]
load_config_MissingIsError(f, p0, t0) ==
    IF f.kind # "object"
    THEN [polygons |-> p0, roi_max_thresholds |-> t0, log |-> "error"]
    ELSE [polygons |-> FromJson(f.polygons),
          roi_max_thresholds |-> FromJson(f.max_thresholds),
          log |-> "info"]
load_config(f, p0, t0) ==
    IF f.kind # "object"
    THEN \* FileNotFoundError, or json.load raises: nothing was assigned
         [polygons |-> p0, roi_max_thresholds |-> t0,
          log |-> IF f.kind = "missing" THEN "missing" ELSE "error"]
    ELSE LET p == FromJson(f.polygons)
             t == FromJson(f.max_thresholds)
         IN  IF IsList(p) /\ IsList(t)
             THEN IF Len(t) # Len(p)
                  THEN [polygons |-> p,
                        roi_max_thresholds |-> [i \in 1..Len(p) |-> DefaultThreshold],
                        log |-> "mismatch"]
                  ELSE [polygons |-> p, roi_max_thresholds |-> t, log |-> "info"]
             ELSE \* len() of a number raises TypeError after both attributes
                  \* were assigned; the handler logs it
                  [polygons |-> p, roi_max_thresholds |-> t, log |-> "error"]

(***************************************************************************)
(* The processes that own a registry (detects.py, app.py)                  *)
(***************************************************************************)
\* A step that delivers no pointer event.
NoRelease == release_seen' = IF release_seen = "off" THEN "off" ELSE "no"

\* main() of detects.py up to the detection loop, or app.py's module body
\* and startup_event: construct the registry and load roi_config.json.
ProcessStart(entry) ==
    /\ app = "off"
    /\ app' = entry
    /\ LET r == load_config(roi_file, <<>>, <<>>) IN
       /\ polygons' = r.polygons
       /\ roi_max_thresholds' = r.roi_max_thresholds
    /\ current_polygon' = <<>>
    /\ edit_mode' = FALSE
    /\ drawing' = FALSE
    /\ selected_polygon' = -1
    /\ drag_point_index' = -1
    /\ cancel_input
    /\ UNCHANGED roi_file
    /\ NoRelease
    /\ UNCHANGED outsideRoi

\* The process ends (killed, or its main loop left); its memory is gone, which
\* the model records as the constructor's values.
ProcessExit ==
    /\ app # "off"
    /\ app' = "off"
    /\ Constructed
    /\ UNCHANGED roi_file
    /\ NoRelease
    /\ UNCHANGED outsideRoi

\* cv2 delivers a pointer event to the standalone window.
MouseEvent(event, p) ==
    /\ app = "standalone"
    /\ mouse_callback(event, p)
    /\ release_seen' =
         IF release_seen = "off" THEN "off"
         ELSE IF event = "LBUTTONUP" /\ selected_polygon' # -1 THEN "yes" ELSE "no"
    /\ UNCHANGED outsideRoi

\* frame_handler(frame) of detects.py with the key cv2.waitKey returned.
frame_handler(key) ==
    /\ app = "standalone"
    /\ IF input_mode
       THEN handle_key_input(key)
       ELSE CASE key = 113 ->
                   \* KeyboardInterrupt: main() leaves its loop
                   /\ app' = "off"
                   /\ Constructed
                   /\ UNCHANGED roi_file
              [] key = 101 ->
                   /\ edit_mode' = ~edit_mode
                   /\ UNCHANGED <<polygons, roi_max_thresholds, current_polygon,
                                  drawing, selected_polygon, drag_point_index,
                                  input_mode, input_buffer, input_prompt,
                                  pending_polygon, app, roi_file>>
              [] key = 115 /\ edit_mode ->
                   /\ roi_file' = SavedFile
                   /\ edit_mode' = FALSE
                   /\ UNCHANGED <<polygons, roi_max_thresholds, current_polygon,
                                  drawing, selected_polygon, drag_point_index,
                                  input_mode, input_buffer, input_prompt,
                                  pending_polygon, app>>
              [] key = 99 /\ edit_mode ->
                   /\ polygons' = <<>>
                   /\ IF IsList(roi_max_thresholds)
                      THEN /\ roi_max_thresholds' = <<>>
                           /\ current_polygon' = <<>>
                      ELSE \* an int has no clear: AttributeError
                           UNCHANGED <<roi_max_thresholds, current_polygon>>
                   /\ UNCHANGED <<edit_mode, drawing, selected_polygon,
                                  drag_point_index, input_mode, input_buffer,
                                  input_prompt, pending_polygon, app, roi_file>>
              [] OTHER -> UNCHANGED roiVars
    /\ NoRelease
    /\ UNCHANGED outsideRoi

\* POST /toggle_edit_mode
toggle_edit_mode ==
    /\ app = "web"
    /\ edit_mode' = ~edit_mode
    /\ UNCHANGED <<polygons, roi_max_thresholds, current_polygon, drawing,
                   selected_polygon, drag_point_index, input_mode, input_buffer,
                   input_prompt, pending_polygon, app, roi_file>>
    /\ NoRelease
    /\ UNCHANGED outsideRoi

\* POST /save_rois
save_rois ==
    /\ app = "web"
    /\ roi_file' = SavedFile
    /\ edit_mode' = FALSE
    /\ UNCHANGED <<polygons, roi_max_thresholds, current_polygon, drawing,
                   selected_polygon, drag_point_index, input_mode, input_buffer,
                   input_prompt, pending_polygon, app>>
    /\ NoRelease
    /\ UNCHANGED outsideRoi

MouseEvents == {"LBUTTONDOWN", "RBUTTONDOWN", "MOUSEMOVE", "LBUTTONUP"}

InitRoi ==
    /\ polygons = <<>>
    /\ roi_max_thresholds = <<>>
    /\ current_polygon = <<>>
    /\ edit_mode = FALSE
    /\ drawing = FALSE
    /\ selected_polygon = -1
    /\ drag_point_index = -1
    /\ input_mode = FALSE
    /\ input_buffer = <<>>
    /\ input_prompt = 0
    /\ pending_polygon = <<>>
    /\ release_seen = "off"
    /\ app = "off"
    /\ roi_file \in InitialFiles
    /\ now = StartTime
    /\ StreamConstructed
    /\ DetectIdle
    /\ RegionIdle
    /\ CountIdle
    /\ SinkIdle
    /\ RenderIdle

NextRoi ==
    \/ \E entry \in {"standalone", "web"} : ProcessStart(entry)
    \/ ProcessExit
    \/ \E event \in MouseEvents, p \in Positions : MouseEvent(event, p)
    \/ \E key \in Keys : frame_handler(key)
    \/ toggle_edit_mode
    \/ save_rois

SpecRoi == InitRoi /\ [][NextRoi]_vars

\* The same processes started without a file or on a well-formed file of one
\* ROI, with button releases followed.
InitPointer ==
    /\ polygons = <<>>
    /\ roi_max_thresholds = <<>>
    /\ current_polygon = <<>>
    /\ edit_mode = FALSE
    /\ drawing = FALSE
    /\ selected_polygon = -1
    /\ drag_point_index = -1
    /\ input_mode = FALSE
    /\ input_buffer = <<>>
    /\ input_prompt = 0
    /\ pending_polygon = <<>>
    /\ release_seen = "no"
    /\ app = "off"
    /\ roi_file \in {FileMissing, FileObject(JList(<<Triangle>>), JList(<<5>>))}
    /\ now = StartTime
    /\ StreamConstructed
    /\ DetectIdle
    /\ RegionIdle
    /\ CountIdle
    /\ SinkIdle
    /\ RenderIdle

SpecPointer == InitPointer /\ [][NextRoi]_vars

(***************************************************************************)
(* Claims about the ROI registry                                           *)
(***************************************************************************)

\* C9: in every reachable state of the registry the threshold collection is a
\* list with exactly as many entries as the polygon collection.
C9_ThresholdsMatchPolygons ==
    /\ IsList(polygons)
    /\ IsList(roi_max_thresholds)
    /\ Len(roi_max_thresholds) = Len(polygons)

\* C10: a step of a running process taken while edit-mode is off (so not the
\* load at start-up, which hydrates the registry) leaves the committed polygons
\* and thresholds as they are: nothing added, removed or moved.
C10_MutatedOnlyInEditMode ==
    [][(app # "off" /\ app' = app /\ ~edit_mode)
         => (polygons' = polygons /\ roi_max_thresholds' = roi_max_thresholds)]_vars

\* C10 witness: edit-mode was switched off in the middle of a drag and of a
\* draw, so pointer events still arrive with a vertex selected.
C10_Witness ==
    /\ app = "standalone"
    /\ ~edit_mode
    /\ selected_polygon # -1
    /\ polygons # <<>>

(***************************************************************************)
(* detect() and the top-level restart loop                                 *)
(* (detection_module.py:242-380, app.py:45-73, detects.py:82-106)          *)
(***************************************************************************)
\* The orchestrator is followed for AlertHorizon seconds in steps of
\* AlertTick, through at most MaxRuns invocations of detect(); the detector
\* finds at most MaxCount people in one ROI.
AlertTick == 30
AlertHorizon == 180
MaxRuns == 2
MaxCount == 2

ALERT_COOLDOWN_SECONDS == 120
METADATA_UPDATE_INTERVAL == 1
RETRY_DELAY == 10

\* Registries detect() is run against: no ROI, a zero threshold, one ROI, two
\* ROIs, and the registry a scalar "max_thresholds" leaves behind.
AlertRegistries ==
    { <<<<>>, <<>>>>,
      <<<<Triangle>>, <<0>>>>,
      <<<<Triangle>>, <<2>>>>,
      <<<<Triangle, Triangle>>, <<1, 3>>>>,
      <<<<Triangle>>, Scalar(DefaultThreshold)>> }

\* detection_module.py:245
webcam == source_kind \in {"url", "numeric"}

\* config.skip_frames as the two entry points set it (config.py)
skip_frames == IF app = "web" THEN 2 ELSE 1

\* is_live as each top-level caller computes it (app.py:67, detects.py:82)
is_live ==
    IF app = "web" THEN source_kind = "url" ELSE source_kind \in {"url", "numeric"}

RECURSIVE SumSeq(_)
SumSeq(s) == IF s = <<>> THEN 0 ELSE Head(s) + SumSeq(Tail(s))

\* The per-ROI loop of detection_module.py:288-303 over the counts the
\* detector produced: <<roi_counts, total_detections, statuses>>.
RECURSIVE CountLoop_StrictOverflow(_, _, _)
CountLoop_StrictOverflow(counts, idx, acc) ==
    IF idx > Len(counts) THEN acc
    ELSE LET count == counts[idx]
             is_overflow == IF idx - 1 < Len(roi_max_thresholds)
                            THEN count > roi_max_thresholds[idx]
                            ELSE FALSE
         IN CountLoop_StrictOverflow(counts, idx + 1,
                      << Append(acc[1], count),
                         acc[2] + count,
                         Append(acc[3], IF is_overflow THEN "overflow" ELSE "ok") >>)
RECURSIVE CountLoop(_, _, _)
CountLoop(counts, idx, acc) ==
    IF idx > Len(counts) THEN acc
    ELSE LET count == counts[idx]
             is_overflow == IF idx - 1 < Len(roi_max_thresholds)
                            THEN count >= roi_max_thresholds[idx]
                            ELSE FALSE
         IN CountLoop(counts, idx + 1,
                      << Append(acc[1], count),
                         acc[2] + count,
                         Append(acc[3], IF is_overflow THEN "overflow" ELSE "ok") >>)

\* The alert condition of detection_module.py:321-323.
AlertGate_NoCooldown(total, total_max_threshold, current, last) ==
    /\ total > 0
    /\ total_max_threshold > 0
    /\ total >= total_max_threshold
AlertGate(total, total_max_threshold, current, last) ==
    /\ total > 0
    /\ total_max_threshold > 0
    /\ total >= total_max_threshold
    /\ current - last > ALERT_COOLDOWN_SECONDS

frameLocals == <<roi_counts, total_detections, statuses, current_time, alert_fired,
                 tick_effects>>
ghostVars == <<run, last_alert, last_alert_run, same_run_pair>>

\* The top-level caller calls detect() (app.py:55, detects.py:86).
DetectInvoke ==
    /\ dpc = "invoke"
    /\ run < MaxRuns                                        \* bound
    /\ run' = run + 1
    /\ dpc' = "init"
    /\ UNCHANGED <<outsideAlert, source_kind, side_effects, ds, last_global_alert_time,
                   last_metadata_update_time, processed_frames, frameLocals,
                   caller_wake, last_alert, last_alert_run, same_run_pair>>

\* detection_module.py:244-263: the model is loaded and the source opened,
\* and the locals of the loop are initialised; any of it may raise.
DetectInit ==
    /\ dpc = "init"
    /\ \/ /\ ds' = IF webcam THEN "started" ELSE "files"
          /\ last_global_alert_time' = 0
          /\ last_metadata_update_time' = 0
          /\ processed_frames' = 0
          /\ dpc' = "loop"
       \/ /\ dpc' = "except"
          /\ ds' = "none"
          /\ UNCHANGED <<last_global_alert_time, last_metadata_update_time,
                         processed_frames>>
    /\ UNCHANGED <<outsideAlert, source_kind, side_effects, frameLocals, caller_wake, ghostVars>>

\* detection_module.py:266-273: the next frame is obtained.  A stream source
\* hands back a live frame, a placeholder, or no frame at all; a file source
\* a frame or the end of the files; either may raise.
DetectObtain ==
    /\ dpc = "loop"
    /\ \E outcome \in IF webcam THEN {"live", "placeholder", "null", "raise"}
                                ELSE {"live", "exhausted", "raise"} :
          dpc' = CASE outcome = "live"        -> "process"
                   [] outcome = "placeholder" -> "placeholder"
                   [] outcome = "null"        -> "loop"
                   [] outcome = "exhausted"   -> "returned"
                   [] OTHER                   -> "except"
    /\ roi_counts' = <<>>
    /\ total_detections' = 0
    /\ statuses' = <<>>
    /\ current_time' = 0
    /\ alert_fired' = FALSE
    /\ tick_effects' = {}
    /\ UNCHANGED <<outsideAlert, source_kind, side_effects, ds, last_global_alert_time,
                   last_metadata_update_time, processed_frames, caller_wake,
                   ghostVars>>

\* detection_module.py:275-278: a placeholder goes straight to the output
\* buffer, outside the per-frame try: what the buffer raises leaves detect().
\* Only the standalone buffer raises KeyboardInterrupt (detects.py:67).
DetectPlaceholder_CountsFrame ==
    /\ dpc = "placeholder"
    /\ \E outcome \in {"ok", "Exception"} \cup
                      (IF app = "standalone" THEN {"KeyboardInterrupt"} ELSE {}) :
          dpc' = CASE outcome = "ok"        -> "loop"
                   [] outcome = "Exception" -> "except"
                   [] OTHER                 -> "ended"
    /\ tick_effects' = {"placeholder"}
    /\ processed_frames' = (processed_frames + 1) % skip_frames
    /\ UNCHANGED <<outsideAlert, source_kind, side_effects, ds, last_global_alert_time,
                   last_metadata_update_time, roi_counts,
                   total_detections, statuses, current_time, alert_fired,
                   caller_wake, ghostVars>>

DetectPlaceholder ==
    /\ dpc = "placeholder"
    /\ \E outcome \in {"ok", "Exception"} \cup
                      (IF app = "standalone" THEN {"KeyboardInterrupt"} ELSE {}) :
          dpc' = CASE outcome = "ok"        -> "loop"
                   [] outcome = "Exception" -> "except"
                   [] OTHER                 -> "ended"
    /\ tick_effects' = {"placeholder"}
    /\ UNCHANGED <<outsideAlert, source_kind, side_effects, ds, last_global_alert_time,
                   last_metadata_update_time, processed_frames, roi_counts,
                   total_detections, statuses, current_time, alert_fired,
                   caller_wake, ghostVars>>

\* detection_module.py:280-315: the frame is counted, skipped frames apart;
\* the per-frame try swallows whatever is raised.
DetectProcess ==
    /\ dpc = "process"
    /\ processed_frames' = (processed_frames + 1) % skip_frames
    /\ IF processed_frames' # 0
         THEN /\ dpc' = "loop"
              /\ UNCHANGED frameLocals
         ELSE \/ /\ polygons # <<>> => IsList(roi_max_thresholds)
                 /\ \E counts \in [1..Len(polygons) -> 0..MaxCount] :
                      LET r == CountLoop(counts, 1, <<<<>>, 0, <<>>>>)
                      IN /\ roi_counts' = r[1]
                         /\ total_detections' = r[2]
                         /\ statuses' = r[3]
                 /\ dpc' = "alert"
                 /\ UNCHANGED <<current_time, alert_fired, tick_effects>>
              \/ /\ dpc' = "loop"
                 /\ UNCHANGED frameLocals
    /\ UNCHANGED <<outsideAlert, source_kind, side_effects, ds, last_global_alert_time,
                   last_metadata_update_time, caller_wake, ghostVars>>

\* detection_module.py:318-331: the alert decision.  sum() of a scalar raises,
\* which the per-frame try swallows.  When the gate opens, the frame loop goes
\* into upload_screenshot_and_save_local_async, whose first act is
\* cv2.imwrite (line 47).
DetectAlert ==
    /\ dpc = "alert"
    /\ current_time' = now
    /\ IF ~IsList(roi_max_thresholds)
         THEN /\ dpc' = "loop"
              /\ UNCHANGED <<last_global_alert_time, alert_fired, last_alert,
                             last_alert_run, same_run_pair, side_effects>>
         ELSE IF AlertGate(total_detections, SumSeq(roi_max_thresholds),
                           now, last_global_alert_time)
                THEN /\ last_global_alert_time' = now
                     /\ alert_fired' = TRUE
                     /\ last_alert' = now
                     /\ last_alert_run' = run
                     /\ same_run_pair' = (last_alert_run = run)
                     /\ side_effects' = [side_effects EXCEPT !["persist"] = "inline"]
                     /\ dpc' = "screenshot"
                ELSE /\ dpc' = "publish"
                     /\ UNCHANGED <<last_global_alert_time, alert_fired,
                                    last_alert, last_alert_run, same_run_pair,
                                    side_effects>>
    /\ UNCHANGED <<outsideAlert, source_kind, ds, last_metadata_update_time,
                   processed_frames, roi_counts, total_detections, statuses,
                   tick_effects, caller_wake, run>>

\* detection_module.py:37-75, 333-341: the screenshots directory is made
\* (line 43, outside the function's try: what mkdir raises goes to the
\* per-frame handler) and imwrite returns; if it did not raise, the upload is
\* started on a thread of its own (line 70).  The frame loop then calls
\* push_alert, which talks to Redis itself (redis_utils.py:55-79).
DetectScreenshot_SavesInBackground ==
    /\ dpc = "screenshot"
    /\ \/ /\ side_effects' = [side_effects EXCEPT
                                !["persist"] = "background",
                                !["upload"] = "background",
                                !["enqueue"] = "inline"]
          /\ dpc' = "push"
       \/ /\ side_effects' = [side_effects EXCEPT !["persist"] = "idle"]
          /\ dpc' = "loop"
    /\ UNCHANGED <<outsideAlert, source_kind, ds, last_global_alert_time,
                   last_metadata_update_time, processed_frames, frameLocals,
                   caller_wake, ghostVars>>
DetectScreenshot ==
    /\ dpc = "screenshot"
    /\ \/ /\ \E saved \in BOOLEAN :
               side_effects' = [side_effects EXCEPT
                                  !["persist"] = "idle",
                                  !["upload"] = IF saved THEN "background" ELSE @,
                                  !["enqueue"] = "inline"]
          /\ dpc' = "push"
       \/ /\ side_effects' = [side_effects EXCEPT !["persist"] = "idle"]
          /\ dpc' = "loop"
    /\ UNCHANGED <<outsideAlert, source_kind, ds, last_global_alert_time,
                   last_metadata_update_time, processed_frames, frameLocals,
                   caller_wake, ghostVars>>

\* detection_module.py:338-352: push_alert returns, pushed or not, and
\* send_email_with_image starts the sending thread unless no recipient is
\* configured (send_email.py:190-205).
DetectPush ==
    /\ dpc = "push"
    /\ \E recipients \in BOOLEAN :
          side_effects' = [side_effects EXCEPT
                             !["enqueue"] = "idle",
                             !["email"] = IF recipients THEN "background" ELSE @]
    /\ dpc' = "publish"
    /\ UNCHANGED <<outsideAlert, source_kind, ds, last_global_alert_time,
                   last_metadata_update_time, processed_frames, frameLocals,
                   caller_wake, ghostVars>>

\* A background thread (_upload_target, _send_email_sync_target) finishes.
BackgroundDone ==
    /\ \E e \in {"upload", "email"} :
          /\ side_effects[e] = "background"
          /\ side_effects' = [side_effects EXCEPT ![e] = "idle"]
    /\ UNCHANGED <<outsideAlert, source_kind, dpc, ds, last_global_alert_time,
                   last_metadata_update_time, processed_frames, frameLocals,
                   caller_wake, ghostVars>>

\* detection_module.py:355-367: the count is stored, the heartbeat written if
\* due, and the frame handed to the output buffer.  An Exception is swallowed
\* by the per-frame try; KeyboardInterrupt is not.
DetectPublish_FailureNotCounted ==
    /\ dpc = "publish"
    /\ \E outcome \in {"ok", "Exception"} \cup
                      (IF app = "standalone" THEN {"KeyboardInterrupt"} ELSE {}),
          inserted \in BOOLEAN :
          /\ dpc' = IF outcome = "KeyboardInterrupt" THEN "ended" ELSE "loop"
          /\ last_metadata_update_time' =
               IF /\ current_time - last_metadata_update_time
                       > METADATA_UPDATE_INTERVAL
                  /\ inserted
                 THEN current_time ELSE last_metadata_update_time
          /\ tick_effects' =
                {"count"}
                \cup (IF current_time - last_metadata_update_time
                           > METADATA_UPDATE_INTERVAL
                      THEN {IF inserted THEN "heartbeat" ELSE "heartbeat failed"}
                      ELSE {})
                \cup (IF outcome = "Exception" THEN {} ELSE {"annotated"})
    /\ UNCHANGED <<outsideAlert, source_kind, side_effects, ds, last_global_alert_time,
                   processed_frames, roi_counts, total_detections, statuses,
                   current_time, alert_fired, caller_wake, ghostVars>>

DetectPublish ==
    /\ dpc = "publish"
    /\ last_metadata_update_time' =
         IF current_time - last_metadata_update_time > METADATA_UPDATE_INTERVAL
           THEN current_time ELSE last_metadata_update_time
    /\ \E outcome \in {"ok", "Exception"} \cup
                      (IF app = "standalone" THEN {"KeyboardInterrupt"} ELSE {}),
          inserted \in BOOLEAN :
          /\ dpc' = IF outcome = "KeyboardInterrupt" THEN "ended" ELSE "loop"
          /\ tick_effects' =
                {"count"}
                \cup (IF current_time - last_metadata_update_time
                           > METADATA_UPDATE_INTERVAL
                      THEN {IF inserted THEN "heartbeat" ELSE "heartbeat failed"}
                      ELSE {})
                \cup (IF outcome = "Exception" THEN {} ELSE {"annotated"})
    /\ UNCHANGED <<outsideAlert, source_kind, side_effects, ds, last_global_alert_time,
                   processed_frames, roi_counts, total_detections, statuses,
                   current_time, alert_fired, caller_wake, ghostVars>>

\* detection_module.py:376-380: the stream is stopped and the exception goes
\* on to the caller.
DetectExcept ==
    /\ dpc = "except"
    /\ ds' = IF ds = "started" THEN "stopped" ELSE ds
    /\ dpc' = "caught"
    /\ UNCHANGED <<outsideAlert, source_kind, side_effects, last_global_alert_time,
                   last_metadata_update_time, processed_frames, frameLocals,
                   caller_wake, ghostVars>>

\* app.py:65-73, detects.py:100-106: the caller logs the crash and, for a live
\* source, sleeps before it calls detect() again.
CallerCatch ==
    /\ dpc = "caught"
    /\ IF is_live
         THEN /\ dpc' = "sleep"
              /\ caller_wake' = now + RETRY_DELAY
         ELSE /\ dpc' = "ended"
              /\ UNCHANGED caller_wake
    /\ UNCHANGED <<outsideAlert, source_kind, side_effects, ds, last_global_alert_time,
                   last_metadata_update_time, processed_frames, frameLocals,
                   ghostVars>>

CallerWake ==
    /\ dpc = "sleep"
    /\ now >= caller_wake
    /\ dpc' = "invoke"
    /\ UNCHANGED <<outsideAlert, source_kind, side_effects, ds, last_global_alert_time,
                   last_metadata_update_time, processed_frames, frameLocals,
                   caller_wake, ghostVars>>

\* detect() returned: app.py:52 loops, detects.py:92-96 waits for 'q'.
CallerReturned ==
    /\ dpc = "returned"
    /\ dpc' = IF app = "web" THEN "invoke" ELSE "ended"
    /\ UNCHANGED <<outsideAlert, source_kind, side_effects, ds, last_global_alert_time,
                   last_metadata_update_time, processed_frames, frameLocals,
                   caller_wake, ghostVars>>

\* The clock advances.
AlertClock ==
    /\ now + AlertTick <= StartTime + AlertHorizon          \* bound
    /\ now' = now + AlertTick
    /\ UNCHANGED <<roiVars, release_seen, streamVars, alertVars, regionVars,
                   countVars, sinkVars, renderVars>>

InitAlert ==
    /\ \E r \in AlertRegistries : polygons = r[1] /\ roi_max_thresholds = r[2]
    /\ current_polygon = <<>>
    /\ edit_mode = FALSE
    /\ drawing = FALSE
    /\ selected_polygon = -1
    /\ drag_point_index = -1
    /\ input_mode = FALSE
    /\ input_buffer = <<>>
    /\ input_prompt = 0
    /\ pending_polygon = <<>>
    /\ release_seen = "off"
    /\ app \in {"standalone", "web"}
    /\ roi_file = FileMissing
    /\ now = StartTime
    /\ StreamConstructed
    /\ source_kind \in {"url", "numeric", "file"}
    /\ dpc = "invoke"
    /\ ds = "none"
    /\ last_global_alert_time = 0
    /\ last_metadata_update_time = 0
    /\ processed_frames = 0
    /\ roi_counts = <<>>
    /\ total_detections = 0
    /\ statuses = <<>>
    /\ current_time = 0
    /\ alert_fired = FALSE
    /\ tick_effects = {}
    /\ caller_wake = 0
    /\ side_effects = [e \in SideEffects |-> "idle"]
    /\ run = 0
    /\ last_alert = 0
    /\ last_alert_run = 0
    /\ same_run_pair = FALSE
    /\ RegionIdle
    /\ CountIdle
    /\ SinkIdle
    /\ RenderIdle

NextAlert ==
    \/ DetectInvoke
    \/ DetectInit
    \/ DetectObtain
    \/ DetectPlaceholder
    \/ DetectProcess
    \/ DetectAlert
    \/ DetectScreenshot
    \/ DetectPush
    \/ BackgroundDone
    \/ DetectPublish
    \/ DetectExcept
    \/ CallerCatch
    \/ CallerWake
    \/ CallerReturned
    \/ AlertClock

SpecAlert == InitAlert /\ [][NextAlert]_vars

(***************************************************************************)
(* Claims about the alert cooldown                                         *)
(***************************************************************************)

\* The step on which an alert fires.
AlertFires == dpc = "alert" /\ alert_fired'

\* C1: within one run of detect(), an alert that fires after an earlier alert
\* of the same run fires at least the cooldown window of 120 s after it.
C1_CooldownWithinRun ==
    [][(AlertFires /\ last_alert_run = run)
         => now - last_alert >= ALERT_COOLDOWN_SECONDS]_vars

\* C1 witness: a second alert has fired in the run that fired the first.
C1_Witness ==
    /\ alert_fired
    /\ last_alert_run = run
    /\ same_run_pair

\* C2: the cooldown outlives a crash: an alert that fires after an earlier
\* alert of the same process, whichever run of detect() fired it, fires at
\* least the cooldown window of 120 s after it.
C2_CooldownAcrossRuns ==
    [][(AlertFires /\ last_alert_run # 0)
         => now - last_alert >= ALERT_COOLDOWN_SECONDS]_vars

\* C3: on every processed frame an alert fires exactly when the summed count
\* is positive, the summed threshold is positive, the summed count reaches the
\* summed threshold, and either no alert has fired yet or more than 120 s have
\* passed since the last alert that fired.
C3_AlertIffGate ==
    [][(dpc = "alert" /\ dpc' \in {"publish", "screenshot"})
         => (alert_fired' <=>
               /\ SumSeq(roi_counts) > 0
               /\ SumSeq(roi_max_thresholds) > 0
               /\ SumSeq(roi_counts) >= SumSeq(roi_max_thresholds)
               /\ (last_alert_run = 0
                     \/ now - last_alert > ALERT_COOLDOWN_SECONDS))]_vars

(***************************************************************************)
(* Claims about roi_config.json                                            *)
(***************************************************************************)

\* C11: whenever the registry holds as many thresholds as polygons, loading
\* the file save_config writes, into a registry holding anything, gives back
\* the same polygons and the same thresholds in the same order; what is being
\* drawn or awaits its threshold is not written.
C11_RoundTrip ==
    (IsList(polygons) /\ IsList(roi_max_thresholds)
        /\ Len(roi_max_thresholds) = Len(polygons))
    => \A r \in AlertRegistries :
          LET l == load_config(SavedFile, r[1], r[2])
          IN /\ l.polygons = polygons
             /\ l.roi_max_thresholds = roi_max_thresholds

\* C11 witness: the web process, which cannot draw, holds a polygon drawn and
\* saved by an earlier standalone process, with its typed threshold.
C11_Witness ==
    /\ app = "web"
    /\ Len(polygons) = 1
    /\ polygons[1] # Triangle
    /\ roi_max_thresholds = <<5>>
    /\ roi_file = SavedFile

\* A file whose polygon list and threshold list differ in length.
MismatchedFile(f) ==
    /\ f.kind = "object"
    /\ f.polygons.kind \in {"list", "absent"}
    /\ f.max_thresholds.kind \in {"list", "absent"}
    /\ Len(FromJson(f.polygons)) # Len(FromJson(f.max_thresholds))

\* C12: a process that starts on a file whose two lists differ in length comes
\* up with the polygons as stored and one default threshold (50) per polygon,
\* and load_config logs the mismatch warning rather than an error.
C12_MismatchResetsThresholds ==
    [][(app = "off" /\ app' # "off" /\ MismatchedFile(roi_file))
         => /\ polygons' = FromJson(roi_file.polygons)
            /\ roi_max_thresholds' = [i \in 1..Len(polygons') |-> DefaultThreshold]
            /\ load_config(roi_file, <<>>, <<>>).log = "mismatch"]_vars

\* C12 witness: a process has started on two polygons stored with one
\* threshold.
C12_Witness ==
    /\ app # "off"
    /\ MismatchedFile(roi_file)
    /\ Len(polygons) = 2
    /\ roi_max_thresholds = <<DefaultThreshold, DefaultThreshold>>

\* C13: a process that starts with no roi_config.json comes up with an empty
\* registry, and load_config logs the missing file as a warning, not an error.
C13_MissingFileIsNoError ==
    [][(app = "off" /\ app' # "off" /\ roi_file.kind = "missing")
         => /\ polygons' = <<>>
            /\ roi_max_thresholds' = <<>>
            /\ load_config(roi_file, <<>>, <<>>).log = "missing"]_vars

\* C13 witness: a process runs, started without a file.
C13_Witness ==
    /\ app # "off"
    /\ roi_file = FileMissing
    /\ polygons = <<>>
    /\ roi_max_thresholds = <<>>
    /\ ~edit_mode

(***************************************************************************)
(* extract_roi_region (detection_utils.py:71-90)                           *)
(***************************************************************************)
\* The frame is FrameSize x FrameSize pixels; polygon coordinates run up to
\* Margin pixels beyond it on every side; polygons have up to MaxPoints
\* points.
FrameSize == 2
Margin == 2
MaxPoints == 4

Coords == (0 - Margin)..(FrameSize - 1 + Margin)

\* The polygons the function is applied to: the first n corners, in drawing
\* order, of every axis-aligned box over Coords, boxes of no width or no
\* height included.
BoxPolygon(x1, y1, x2, y2, n) ==
    SubSeq(<< <<x1, y1>>, <<x2, y1>>, <<x2, y2>>, <<x1, y2>> >>, 1, n)
RegionInputs ==
    { BoxPolygon(x1, y1, x2, y2, n) :
        x1 \in Coords, y1 \in Coords, x2 \in Coords, y2 \in Coords,
        n \in 0..MaxPoints }

SetMin(S) == CHOOSE m \in S : \A e \in S : m <= e
SetMax(S) == CHOOSE m \in S : \A e \in S : m >= e
PyMin(a, b) == IF a <= b THEN a ELSE b
PyMax(a, b) == IF a >= b THEN a ELSE b

\* cv2.boundingRect of integer points: the smallest upright rectangle of
\* pixels that holds them all, so width and height count both end pixels.
boundingRect(polygon) ==
    LET xs == { polygon[i][1] : i \in 1..Len(polygon) }
        ys == { polygon[i][2] : i \in 1..Len(polygon) }
    IN [x |-> SetMin(xs), y |-> SetMin(ys),
        w |-> SetMax(xs) - SetMin(xs) + 1,
        h |-> SetMax(ys) - SetMin(ys) + 1]

\* The value returned for a frame of img_w x img_h pixels: (None, None), or
\* the crop image[y:y+h, x:x+w] of the masked frame with its offset (x, y).
NoRegion == [none |-> TRUE, offset |-> <<0, 0>>, w |-> 0, h |-> 0]
extract_roi_region(img_w, img_h, polygon) ==
    IF Len(polygon) < 3 THEN NoRegion
    ELSE LET b == boundingRect(polygon)
             x == PyMax(0, b.x)
             y == PyMax(0, b.y)
             w == PyMin(b.w, img_w - x)
             h == PyMin(b.h, img_h - y)
         IN IF w <= 0 \/ h <= 0 THEN NoRegion
            ELSE [none |-> FALSE, offset |-> <<x, y>>, w |-> w, h |-> h]

\* detect() calls the function on a polygon of the registry.
ExtractRoi ==
    /\ ex_region = <<>>
    /\ ex_region' = <<extract_roi_region(FrameSize, FrameSize, ex_polygon)>>
    /\ UNCHANGED <<outsideRegion, ex_polygon>>

InitRegion ==
    /\ polygons = <<>>
    /\ roi_max_thresholds = <<>>
    /\ current_polygon = <<>>
    /\ edit_mode = FALSE
    /\ drawing = FALSE
    /\ selected_polygon = -1
    /\ drag_point_index = -1
    /\ input_mode = FALSE
    /\ input_buffer = <<>>
    /\ input_prompt = 0
    /\ pending_polygon = <<>>
    /\ release_seen = "off"
    /\ app = "off"
    /\ roi_file = FileMissing
    /\ now = StartTime
    /\ StreamConstructed
    /\ DetectIdle
    /\ ex_polygon \in RegionInputs
    /\ ex_region = <<>>
    /\ CountIdle
    /\ SinkIdle
    /\ RenderIdle

NextRegion == ExtractRoi

SpecRegion == InitRegion /\ [][NextRegion]_vars

(***************************************************************************)
(* Claims about extract_roi_region                                         *)
(***************************************************************************)
Xs(polygon) == { polygon[i][1] : i \in 1..Len(polygon) }
Ys(polygon) == { polygon[i][2] : i \in 1..Len(polygon) }

\* Every point of the polygon lies beyond the same side of the frame.
FullyOutside(polygon) ==
    /\ polygon # <<>>
    /\ \/ \A x \in Xs(polygon) : x < 0
       \/ \A x \in Xs(polygon) : x >= FrameSize
       \/ \A y \in Ys(polygon) : y < 0
       \/ \A y \in Ys(polygon) : y >= FrameSize

\* C14: for every polygon that lies fully outside the frame, to the left,
\* above, to the right or below, extract_roi_region returns no region.
C14_OutsideGivesNone ==
    (ex_region # <<>> /\ FullyOutside(ex_polygon)) => ex_region[1].none

\* All points on one vertical or one horizontal line, or all the same point.
ZeroAreaBox(polygon) ==
    /\ polygon # <<>>
    /\ \/ Cardinality(Xs(polygon)) = 1
       \/ Cardinality(Ys(polygon)) = 1

\* C15: for every polygon of fewer than three points, and for every polygon
\* whose bounding box has no area, extract_roi_region returns no region.
C15_DegenerateGivesNone ==
    (ex_region # <<>> /\ (Len(ex_polygon) < 3 \/ ZeroAreaBox(ex_polygon)))
        => ex_region[1].none

(***************************************************************************)
(* Claims about failures of detect() and the restart policy                *)
(***************************************************************************)

\* The positions of detect() inside one pass of its frame loop.
FrameTick ==
    {"loop", "placeholder", "process", "alert", "screenshot", "push", "publish"}

\* C16: no exception raised while a frame is obtained, forwarded, counted,
\* alerted on, stored or emitted takes detect() out of its loop: from inside
\* a pass of the loop the crash handler is never entered.
C16_PerFrameExceptionCaught ==
    [][(dpc \in FrameTick) => (dpc' # "except")]_vars

\* C17: when detect() has failed, either top-level caller sleeps and retries
\* for every source detect() reads through FFmpegStreamer (a URL or a device
\* index), and gives up for a file source.
C17_RestartPolicy ==
    [][(dpc = "caught" /\ dpc' # dpc)
         => ((webcam => dpc' = "sleep") /\ (~webcam => dpc' = "ended"))]_vars

\* C18: once detect() has returned because a file source is exhausted, no
\* further pass over the source is started: detect() is not called again.
C18_ExhaustedSourceEnds ==
    [][(dpc = "returned") => (dpc' # "invoke")]_vars

(***************************************************************************)
(* Claims about the side effects of an alert                               *)
(***************************************************************************)

\* C19: none of the side effects of an alert (writing and uploading the
\* screenshot, pushing onto the alert queue, sending the email) ever runs on
\* the frame loop itself: each runs, if at all, in the background.
C19_SideEffectsOffLoop ==
    \A e \in SideEffects : side_effects[e] # "inline"

(***************************************************************************)
(* The output sink of the web app (app.py:32-33, 76-95)                    *)
(***************************************************************************)
\* A frame with number n: both halves carry the number.
Frame(n) == <<n, n>>

\* frame.copy(): a new array with the contents of the frame.
frame_copy_Partial(frame) == <<frame[1], output_frame[2]>>
frame_copy(frame) == frame

\* detect() calls output_frame_buffer(frame) with its next frame
\* (detection_module.py:276, 367; app.py:59).
sink_call ==
    /\ sink_pc = "idle"
    /\ sink_frame < MaxEmits                                \* bound
    /\ sink_frame' = sink_frame + 1
    /\ sink_pc' = "acquire"
    /\ UNCHANGED <<outsideSink, output_frame, lock, gen_pc, encodedImage, yielded>>

\* set_output_frame: with lock                              (app.py:79)
sink_acquire ==
    /\ sink_pc = "acquire"
    /\ lock = "free"
    /\ lock' = "writer"
    /\ sink_pc' = "store"
    /\ UNCHANGED <<outsideSink, output_frame, sink_frame, gen_pc, encodedImage,
                   yielded>>

\* set_output_frame: output_frame = frame.copy(), and the lock is released
\*                                                           (app.py:80)
set_output_frame ==
    /\ sink_pc = "store"
    /\ output_frame' = frame_copy(Frame(sink_frame))
    /\ lock' = "free"
    /\ sink_pc' = "idle"
    /\ UNCHANGED <<outsideSink, sink_frame, gen_pc, encodedImage, yielded>>

\* GET /video_feed: a client starts a generator          (app.py:112-115)
video_feed(c) ==
    /\ gen_pc[c] = "off"
    /\ gen_pc' = [gen_pc EXCEPT ![c] = "top"]
    /\ UNCHANGED <<outsideSink, output_frame, lock, sink_pc, sink_frame,
                   encodedImage, yielded>>

\* generate_video_stream: with lock                         (app.py:86)
gen_acquire(c) ==
    /\ gen_pc[c] = "top"
    /\ lock = "free"
    /\ lock' = "consumer"
    /\ gen_pc' = [gen_pc EXCEPT ![c] = "locked"]
    /\ UNCHANGED <<outsideSink, output_frame, sink_pc, sink_frame, encodedImage,
                   yielded>>

\* generate_video_stream, holding the lock: with no frame yet it goes to
\* sleep inside the with block; otherwise the slot is encoded, which may
\* fail, and the lock is released on the way out          (app.py:87-92)
gen_encode(c) ==
    /\ gen_pc[c] = "locked"
    /\ IF output_frame = NoFrame
         THEN /\ gen_pc' = [gen_pc EXCEPT ![c] = "sleep"]
              /\ UNCHANGED <<lock, encodedImage>>
         ELSE /\ lock' = "free"
              /\ \E flag \in BOOLEAN :
                   /\ encodedImage' = [encodedImage EXCEPT ![c] = output_frame]
                   /\ gen_pc' = [gen_pc EXCEPT ![c] = IF flag THEN "yield" ELSE "top"]
    /\ UNCHANGED <<outsideSink, output_frame, sink_pc, sink_frame, yielded>>

\* generate_video_stream: time.sleep(0.05) returns, and `continue` leaves the
\* with block, which releases the lock                    (app.py:88-89)
gen_sleep(c) ==
    /\ gen_pc[c] = "sleep"
    /\ lock' = "free"
    /\ gen_pc' = [gen_pc EXCEPT ![c] = "top"]
    /\ UNCHANGED <<outsideSink, output_frame, sink_pc, sink_frame, encodedImage,
                   yielded>>

\* generate_video_stream: yield the encoded frame           (app.py:93-95)
gen_yield(c) ==
    /\ gen_pc[c] = "yield"
    /\ yielded' = [yielded EXCEPT ![c] = encodedImage[c]]
    /\ gen_pc' = [gen_pc EXCEPT ![c] = "top"]
    /\ UNCHANGED <<outsideSink, output_frame, lock, sink_pc, sink_frame,
                   encodedImage>>

InitSink ==
    /\ polygons = <<>>
    /\ roi_max_thresholds = <<>>
    /\ current_polygon = <<>>
    /\ edit_mode = FALSE
    /\ drawing = FALSE
    /\ selected_polygon = -1
    /\ drag_point_index = -1
    /\ input_mode = FALSE
    /\ input_buffer = <<>>
    /\ input_prompt = 0
    /\ pending_polygon = <<>>
    /\ release_seen = "off"
    /\ app = "web"
    /\ roi_file = FileMissing
    /\ now = StartTime
    /\ StreamConstructed
    /\ DetectIdle
    /\ RegionIdle
    /\ CountIdle
    /\ SinkIdle
    /\ RenderIdle

NextSink ==
    \/ sink_call
    \/ sink_acquire
    \/ set_output_frame
    \/ \E c \in Consumers : video_feed(c)
    \/ \E c \in Consumers : gen_acquire(c)
    \/ \E c \in Consumers : gen_encode(c)
    \/ \E c \in Consumers : gen_sleep(c)
    \/ \E c \in Consumers : gen_yield(c)

SpecSink == InitSink /\ [][NextSink]_vars

(***************************************************************************)
(* Claims about the output sink                                            *)
(***************************************************************************)

\* The number of the frame the last completed set_output_frame stored.
LastEmitted == IF sink_pc = "idle" THEN sink_frame ELSE sink_frame - 1

\* C20: a consumer that reads the slot gets, whole, the frame of the latest
\* completed emit, and what one consumer sends to its client never goes back
\* to an earlier frame.
C20_LatestFrameInOrder ==
    [][\A c \in Consumers :
         /\ (gen_pc[c] = "locked" /\ gen_pc'[c] = "yield")
              => encodedImage'[c] = Frame(LastEmitted)
         /\ yielded'[c][1] >= yielded[c][1]
         /\ yielded'[c][1] = yielded'[c][2]]_vars

\* C20 witness: a consumer that has sent frame 1 holds a later frame, encoded
\* and about to be sent, while the orchestrator is already storing the next.
C20_Witness ==
    \E c \in Consumers :
      /\ gen_pc[c] = "yield"
      /\ yielded[c] = Frame(1)
      /\ encodedImage[c] = Frame(2)
      /\ sink_pc = "store"

(***************************************************************************)
(* Claims about the per-frame detection result                             *)
(***************************************************************************)

\* detect() holds the result of counting the frame in hand.
HasResult == dpc \in {"alert", "screenshot", "push", "publish"}

\* C21: the result of a processed frame holds one count and one status per
\* ROI, in the order of the registry; a status is "overflow" exactly when the
\* ROI's count has reached its threshold and "ok" otherwise; and the total is
\* the sum of the counts.
C21_ResultPerRoi ==
    HasResult =>
      /\ IsList(roi_max_thresholds)
      /\ Len(roi_counts) = Len(polygons)
      /\ Len(statuses) = Len(polygons)
      /\ \A i \in 1..Len(polygons) :
           /\ statuses[i] \in {"overflow", "ok"}
           /\ statuses[i] = "overflow" <=> roi_counts[i] >= roi_max_thresholds[i]
      /\ total_detections = SumSeq(roi_counts)

\* C21 witness: two ROIs with thresholds 1 and 3 and counts 1 and 2: the
\* first has just reached its threshold, the second has not.
C21_Witness ==
    /\ dpc = "alert"
    /\ roi_max_thresholds = <<1, 3>>
    /\ roi_counts = <<1, 2>>
    /\ statuses = <<"overflow", "ok">>
    /\ total_detections = 3

(***************************************************************************)
(* Counting the people of one ROI (detection_module.py:287-301,            *)
(* detection_utils.py:38-69, roi_module.py:203-204)                        *)
(***************************************************************************)
\* ROI vertices lie on the grid 0..GridMax x 0..GridMax, one pixel more than
\* the frame; the detector returns up to MaxDets boxes for a region.
GridMax == 2
MaxDets == 1
MinPoints == 3

GridPoints == { <<x, y>> : x \in 0..GridMax, y \in 0..GridMax }
CountInputs == [1..MinPoints -> GridPoints]

\* The boxes detect_in_roi may return, [x1, y1, x2, y2] in region
\* coordinates: boxes of no or one pixel of width and height, from one pixel
\* before the region (a box found in the padding) to its far border.
Boxes ==
    { <<x1, y1, x1 + w, y1 + h>> :
        x1 \in (0 - 1)..FrameSize, y1 \in (0 - 1)..FrameSize,
        w \in 0..1, h \in 0..1 }

\* cv2.pointPolygonTest(cnt, ip, False) on integer points: 0 as soon as an
\* edge is found to hold ip, otherwise +1 or -1 by the parity of the edges
\* crossed by the ray from ip.  The first edge closes the contour.
RECURSIVE pointPolygonTest(_, _, _, _)
pointPolygonTest(cnt, ip, i, counter) ==
    IF i > Len(cnt) THEN (IF counter % 2 = 0 THEN 0 - 1 ELSE 1)
    ELSE LET v0 == cnt[IF i = 1 THEN Len(cnt) ELSE i - 1]
             v == cnt[i]
             dist == (ip[2] - v0[2]) * (v[1] - v0[1])
                       - (ip[1] - v0[1]) * (v[2] - v0[2])
         IN IF \/ (v0[2] <= ip[2] /\ v[2] <= ip[2])
               \/ (v0[2] > ip[2] /\ v[2] > ip[2])
               \/ (v0[1] < ip[1] /\ v[1] < ip[1])
            THEN IF /\ ip[2] = v[2]
                    /\ \/ ip[1] = v[1]
                       \/ /\ ip[2] = v0[2]
                          /\ \/ (v0[1] <= ip[1] /\ ip[1] <= v[1])
                             \/ (v[1] <= ip[1] /\ ip[1] <= v0[1])
                 THEN 0
                 ELSE pointPolygonTest(cnt, ip, i + 1, counter)
            ELSE IF dist = 0 THEN 0
                 ELSE pointPolygonTest(cnt, ip, i + 1,
                        counter + (IF (IF v[2] < v0[2] THEN 0 - dist ELSE dist) > 0
                                   THEN 1 ELSE 0))

point_in_polygon_Strict(point, polygon) ==
    pointPolygonTest(polygon, point, 1, 0) > 0

\* PolygonROIManager.point_in_polygon on a point of integers (int() of an
\* int is that int).
point_in_polygon(point, polygon) ==
    pointPolygonTest(polygon, point, 1, 0) >= 0

\* int() of the float h2 / 2: the fraction is dropped, towards zero.
PyIntHalf(h2) == IF h2 >= 0 THEN h2 \div 2 ELSE 0 - ((0 - h2) \div 2)

\* Twice (center_x, center_y) of lines 293-294: the middle of the box, moved
\* by roi_offset.
Center2(det, roi_offset) ==
    << det[1] + det[3] + 2 * roi_offset[1], det[2] + det[4] + 2 * roi_offset[2] >>

\* Line 288.  Without a region the for loop over detections is not entered.
CountExtract ==
    /\ ct_pc = "extract"
    /\ LET r == extract_roi_region(FrameSize, FrameSize, ct_polygon)
       IN /\ ct_region' = <<r>>
          /\ ct_pc' = IF r.none THEN "centres" ELSE "detect"
    /\ ct_count' = 0
    /\ UNCHANGED <<outsideCount, ct_polygon, ct_failed, ct_left, ct_det, ct_hit>>

\* Line 291: detect_in_roi returns the detector's boxes, or [] when
\* anything in it raised (detection_utils.py:67-69).
CountDetect ==
    /\ ct_pc = "detect"
    /\ \E raised \in BOOLEAN, n \in 0..MaxDets :
         /\ ct_failed' = raised
         /\ ct_left' = IF raised THEN 0 ELSE n
    /\ ct_pc' = "centres"
    /\ UNCHANGED <<outsideCount, ct_polygon, ct_region, ct_det, ct_hit, ct_count>>

\* Lines 292-295, one turn of the for loop up to the test.
CountCentre ==
    /\ ct_pc = "centres"
    /\ ct_left > 0
    /\ \E det \in Boxes :
         LET c2 == Center2(det, ct_region[1].offset)
         IN /\ ct_det' = det
            /\ ct_hit' = point_in_polygon(
                            <<PyIntHalf(c2[1]), PyIntHalf(c2[2])>>, ct_polygon)
    /\ ct_left' = ct_left - 1
    /\ ct_pc' = "tally"
    /\ UNCHANGED <<outsideCount, ct_polygon, ct_region, ct_failed, ct_count>>

\* Lines 295-297: count += 1 when the test said yes; on to the next turn.
CountTally ==
    /\ ct_pc = "tally"
    /\ ct_count' = IF ct_hit THEN ct_count + 1 ELSE ct_count
    /\ ct_det' = <<>>
    /\ ct_hit' = FALSE
    /\ ct_pc' = "centres"
    /\ UNCHANGED <<outsideCount, ct_polygon, ct_region, ct_failed, ct_left>>

\* Line 299: roi_counts.append(count).
CountAppend ==
    /\ ct_pc = "centres"
    /\ ct_left = 0
    /\ ct_pc' = "done"
    /\ UNCHANGED <<outsideCount, ct_polygon, ct_region, ct_failed, ct_left,
                   ct_det, ct_hit, ct_count>>

InitCount ==
    /\ polygons = <<>>
    /\ roi_max_thresholds = <<>>
    /\ current_polygon = <<>>
    /\ edit_mode = FALSE
    /\ drawing = FALSE
    /\ selected_polygon = -1
    /\ drag_point_index = -1
    /\ input_mode = FALSE
    /\ input_buffer = <<>>
    /\ input_prompt = 0
    /\ pending_polygon = <<>>
    /\ release_seen = "off"
    /\ app = "off"
    /\ roi_file = FileMissing
    /\ now = StartTime
    /\ StreamConstructed
    /\ DetectIdle
    /\ RegionIdle
    /\ SinkIdle
    /\ RenderIdle
    /\ ct_polygon \in CountInputs
    /\ ct_pc = "extract"
    /\ ct_region = <<>>
    /\ ct_failed = FALSE
    /\ ct_left = 0
    /\ ct_det = <<>>
    /\ ct_hit = FALSE
    /\ ct_count = 0

NextCount ==
    \/ CountExtract
    \/ CountDetect
    \/ CountCentre
    \/ CountTally
    \/ CountAppend

SpecCount == InitCount /\ [][NextCount]_vars

(***************************************************************************)
(* Claims about counting                                                   *)
(***************************************************************************)
\* The vertex list moved round by k places.
Rotation(polygon, k) ==
    [i \in 1..Len(polygon) |-> polygon[((i - 1 + k) % Len(polygon)) + 1]]

\* q lies on the segment from a to b.
OnSegment(q, a, b) ==
    /\ (q[1] - a[1]) * (b[2] - a[2]) = (q[2] - a[2]) * (b[1] - a[1])
    /\ PyMin(a[1], b[1]) <= q[1] /\ q[1] <= PyMax(a[1], b[1])
    /\ PyMin(a[2], b[2]) <= q[2] /\ q[2] <= PyMax(a[2], b[2])
OnBoundary(q, polygon) ==
    \E i \in 1..Len(polygon) :
        OnSegment(q, polygon[i], polygon[(i % Len(polygon)) + 1])

\* The point handed to point_in_polygon for the detection being visited.
TestedPoint ==
    LET c2 == Center2(ct_det, ct_region[1].offset)
    IN <<PyIntHalf(c2[1]), PyIntHalf(c2[2])>>

\* C22: whichever vertex the list of a polygon starts with, point_in_polygon
\* gives the same answer for an integer point, and a point on the boundary
\* is inside.
C22_RotationInvariant ==
    ct_det # <<>> =>
      /\ \A k \in 0..(Len(ct_polygon) - 1) :
           point_in_polygon(TestedPoint, Rotation(ct_polygon, k)) = ct_hit
      /\ OnBoundary(TestedPoint, ct_polygon) => ct_hit

\* C22 witness: the point (1, 1) in the middle of the hypotenuse of the
\* triangle (0,2), (2,0), (2,2), whose list starts at the far end.
C22_Witness ==
    /\ ct_det # <<>>
    /\ ct_polygon = << <<0, 2>>, <<2, 0>>, <<2, 2>> >>
    /\ TestedPoint = <<1, 1>>
    /\ ct_hit

(***************************************************************************)
(* Claims about drawing and editing ROIs                                   *)
(***************************************************************************)

\* C23: a right click changes the registry only when a draw is in progress
\* with at least 3 points, and then the points drawn become the pending
\* polygon, the in-progress list and the digit buffer are empty, drawing has
\* ended, numeric input is on with a prompt for ROI number len(polygons) + 1,
\* and the committed polygons and thresholds are as before.
C23_ClosePolygon ==
    [][(\E p \in Positions : MouseEvent("RBUTTONDOWN", p))
         => \/ UNCHANGED roiVars
            \/ /\ drawing
               /\ Len(current_polygon) >= 3
               /\ pending_polygon' = current_polygon
               /\ current_polygon' = <<>>
               /\ ~drawing'
               /\ input_buffer' = <<>>
               /\ input_mode'
               /\ input_prompt' = Len(polygons) + 1
               /\ polygons' = polygons
               /\ roi_max_thresholds' = roi_max_thresholds]_vars

\* C23 witness: a polygon of three points was closed and waits for its
\* threshold.
C23_Witness ==
    /\ input_mode
    /\ Len(pending_polygon) = 3
    /\ current_polygon = <<>>
    /\ ~drawing
    /\ input_buffer = <<>>
    /\ input_prompt = Len(polygons) + 1

\* C24: in numeric-input mode the Enter key appends the pending polygon to
\* the polygons and one threshold to the thresholds - the number typed, or 50
\* when nothing was typed - and leaves input mode with the pending polygon
\* and the buffer cleared; the buffer grows only by the digit of a digit key,
\* and Backspace removes its last character.
C24_ConfirmCommits ==
    [][/\ (input_mode /\ frame_handler(13))
           => /\ polygons' = Append(polygons, pending_polygon)
              /\ IsList(roi_max_thresholds)
              /\ roi_max_thresholds' =
                   Append(roi_max_thresholds,
                          IF input_buffer = <<>> THEN DefaultThreshold
                          ELSE PyInt(input_buffer))
              /\ ~input_mode'
              /\ pending_polygon' = <<>>
              /\ input_buffer' = <<>>
       /\ Len(input_buffer') > Len(input_buffer)
           => \E d \in 0..9 : /\ frame_handler(48 + d)
                              /\ input_buffer' = Append(input_buffer, d)
       /\ (input_mode /\ frame_handler(8))
           => input_buffer' = SubSeq(input_buffer, 1, Len(input_buffer) - 1)]_vars

\* C25: in numeric-input mode the Esc key discards the pending polygon and
\* leaves input mode, and the committed polygons and thresholds are what they
\* were before the draw: neither the clicks that drew the polygon, nor the
\* right click that closed it, nor Esc changes them.
C25_CancelDiscards ==
    [][/\ (input_mode /\ frame_handler(27))
           => /\ pending_polygon' = <<>>
              /\ ~input_mode'
              /\ input_buffer' = <<>>
              /\ polygons' = polygons
              /\ roi_max_thresholds' = roi_max_thresholds
       /\ (\/ drawing' /\ Len(current_polygon') > Len(current_polygon)
           \/ input_mode' /\ ~input_mode)
           => /\ polygons' = polygons
              /\ roi_max_thresholds' = roi_max_thresholds]_vars

\* C25 witness: a polygon waits for its threshold with a digit typed, in a
\* registry that holds no ROI; Esc is the next key.
C25_Witness ==
    /\ app = "standalone"
    /\ input_mode
    /\ Len(pending_polygon) = 3
    /\ input_buffer # <<>>
    /\ polygons = <<>>
    /\ roi_max_thresholds = <<>>

\* C26: a press of the left button while edit-mode is off or numeric input
\* is pending changes neither the committed polygons and thresholds, nor the
\* polygon in progress, nor the drawing flag, nor the selected vertex.
C26_PressIgnored ==
    [][((~edit_mode \/ input_mode)
          /\ \E p \in Positions : MouseEvent("LBUTTONDOWN", p))
         => UNCHANGED <<polygons, roi_max_thresholds, current_polygon, drawing,
                        selected_polygon, drag_point_index>>]_vars

\* C26 witness: edit-mode was switched off in the middle of a draw, where the
\* next press would add a third point.
C26_Witness ==
    /\ app = "standalone"
    /\ ~edit_mode
    /\ drawing
    /\ Len(current_polygon) = 2

\* C27: right after a button release no vertex is selected, whatever
\* edit-mode and input-mode were when it arrived.
C27_ReleaseEndsDrag == release_seen = "yes" => selected_polygon = -1

(***************************************************************************)
(* Claims about which detections are counted                               *)
(***************************************************************************)

\* C28: the detection being visited is counted exactly when its centre, moved
\* by the region's offset, lies in the ROI's polygon or on its boundary
\* (tested exactly, on coordinates doubled so that half pixels are whole);
\* and an ROI whose region could not be extracted, or whose detector
\* failed, ends with count 0.
C28_CountedIffInside ==
    /\ ct_det # <<>>
         => (ct_hit <=>
               pointPolygonTest(
                 [i \in 1..Len(ct_polygon) |->
                    <<2 * ct_polygon[i][1], 2 * ct_polygon[i][2]>>],
                 Center2(ct_det, ct_region[1].offset), 1, 0) >= 0)
    /\ (ct_pc = "done" /\ (ct_region[1].none \/ ct_failed)) => ct_count = 0

(***************************************************************************)
(* Claims about what a tick does outside detect()                          *)
(***************************************************************************)

\* C29: a tick on which the stream is not live gives the placeholder frame to
\* the output buffer and does nothing else: no ROI is counted, no alert
\* fires and no alert side effect starts, no count record and no heartbeat
\* is written, and the frame counter and the times of the last alert and of
\* the last heartbeat stay as they are.
C29_PlaceholderOnly ==
    [][(dpc = "placeholder" /\ dpc' # dpc)
         => /\ tick_effects' = {"placeholder"}
            /\ dpc' \in {"loop", "except", "ended"}
            /\ UNCHANGED <<roi_counts, total_detections, statuses, alert_fired,
                           side_effects, processed_frames,
                           last_global_alert_time, last_metadata_update_time,
                           last_alert>>]_vars

\* C29 witness: a placeholder tick has ended during the cooldown of an
\* earlier alert, with frames counted before it.
C29_Witness ==
    /\ dpc = "loop"
    /\ tick_effects = {"placeholder"}
    /\ last_global_alert_time > 0

\* C30: a frame that was counted leaves the loop body only with its count
\* record written, whether or not it fired an alert and whatever became of
\* the alert's side effects.
C30_CountAlwaysStored ==
    [][(HasResult /\ ~HasResult') => "count" \in tick_effects']_vars

\* C31: a frame attempts the heartbeat exactly when more than
\* METADATA_UPDATE_INTERVAL has passed since the run's last attempt, however
\* many frames came in between, and every attempt - failed ones too - becomes
\* the last attempt; so two consecutive attempts of a run are more than the
\* interval apart.
Attempted == {"heartbeat", "heartbeat failed"} \cap tick_effects' # {}
Launching ==
    \/ rpc \in {"popen", "stamp", "chk", "backoff"}
    \/ rpc \in {"loop", "mark"} /\ ffmpeg_process # 0

\* C32: while the reader is launching or relaunching the decoder, the backoff
\* included, read() reports isLive = false, and from then on read() goes on
\* reporting isLive = false until the step in which the reader stores a full
\* frame read from the launched decoder.
C32_NotLiveWhileLaunching ==
    /\ [](Launching => ~ReadResult.live)
    /\ [][(~ReadResult.live /\ ReadResult'.live)
            => (/\ rpc = "got"
                /\ chunk # 0
                /\ latest_frame' = chunk
                /\ procs[ffmpeg_process] # "unborn")]_vars

\* C32 witness: frames had been stored, the decoder ended, and a read() taken
\* when the backoff was over but the relaunch had not begun returned the
\* overlay on the last good frame.
C32_Witness ==
    /\ rpc = "backoff"
    /\ now >= wake
    /\ latest_frame # 0
    /\ read_ret = [called |-> TRUE, live |-> FALSE, frame |-> "overlay",
                   base |-> latest_frame]

\* C33: the reader thread never gives up supervising: while the source has
\* not been stopped, a reader that was started is still at work (so that a
\* decoder that ended can be relaunched after the backoff); it ends only
\* after stop() has cleared running.
C33_ReaderEndsOnlyAfterStop ==
    (thread # "none" /\ running) => ReaderAlive

\* C34: whatever the interleaving of reader, decoder and caller, a read()
\* on a started source that reports isLive = true returns a whole decoded frame, and that frame
\* is the one the reader stored last before the read.
C34_LiveFrameIsLatest ==
    [][(read /\ running /\ read_ret'.live)
         => (/\ read_ret'.frame = "frame"
             /\ read_ret'.base = latest_frame
             /\ latest_frame \in 1..emitted)]_vars

\* C35: a consumer never sleeps or waits for a frame to appear while it
\* holds the lock of the output slot, so the orchestrator's write is never
\* held up by a consumer that waits for the first frame.
C35_NoSleepUnderLock ==
    \A c \in Consumers : gen_pc[c] = "sleep" => lock # "consumer"

(***************************************************************************)
(* Rendering (roi_module.py:118-165)                                       *)
(***************************************************************************)
\* draw_overlays: some ROI with at least 3 points has a count and a threshold
\* and its count has reached the threshold, so is_blinking is set.
is_blinking(counts) ==
    \E i \in 1..Len(polygons) :
        /\ Len(polygons[i]) >= 3
        /\ i <= Len(counts)
        /\ i <= Len(roi_max_thresholds)
        /\ counts[i] >= roi_max_thresholds[i]

\* draw_input_prompt(img): the layer it draws on img, none outside input mode.
draw_input_prompt == IF input_mode THEN {"prompt"} ELSE {}

\* draw_overlays(img, roi_counts): the layers drawn over img in the frame it
\* returns.  The prompt is drawn on img_with_overlay, a copy of img; with
\* is_blinking, img_with_overlay is then rebound to the blend of img and
\* blink_overlay, both without the prompt; the edit-mode drawing and the logo
\* go on whatever img_with_overlay is by then.
draw_overlays(counts) ==
    LET img_with_overlay == IF is_blinking(counts)
                              THEN {"blink"}
                              ELSE draw_input_prompt
    IN  img_with_overlay
          \cup (IF edit_mode THEN {"edit"} ELSE {})
          \cup {"logo"}

\* draw_overlays(img, roi_counts) is called with the result of a frame.
render(counts) ==
    /\ rd_counts' = counts
    /\ rd_frame' = draw_overlays(counts)
    /\ UNCHANGED <<roiVars, release_seen, now, streamVars, alertVars, regionVars,
                   countVars, sinkVars>>

\* Registries of up to two committed ROIs with their thresholds.
RenderRegistries ==
    { <<<<>>, <<>>>> }
    \cup { <<<<Triangle>>, <<t>>>> : t \in 0..MaxCount }
    \cup { <<<<Triangle, Triangle>>, <<t, u>>>> : t \in 0..MaxCount, u \in 0..MaxCount }

\* The registry as a session leaves it between two frames: hydrated, in or
\* out of edit mode, and, in edit mode, possibly waiting for the threshold
\* of a polygon that has just been closed.
InitRender ==
    /\ \E r \in RenderRegistries : polygons = r[1] /\ roi_max_thresholds = r[2]
    /\ current_polygon = <<>>
    /\ edit_mode \in BOOLEAN
    /\ drawing = FALSE
    /\ selected_polygon = -1
    /\ drag_point_index = -1
    /\ input_mode \in BOOLEAN
    /\ input_mode => edit_mode
    /\ input_buffer = <<>>
    /\ input_prompt = IF input_mode THEN Len(polygons) + 1 ELSE 0
    /\ pending_polygon = IF input_mode THEN Triangle ELSE <<>>
    /\ release_seen = "off"
    /\ app = "standalone"
    /\ roi_file = FileMissing
    /\ now = StartTime
    /\ StreamConstructed
    /\ DetectIdle
    /\ RegionIdle
    /\ CountIdle
    /\ SinkIdle
    /\ RenderIdle

NextRender ==
    \E counts \in [1..Len(polygons) -> 0..MaxCount] : render(counts)

SpecRender == InitRender /\ [][NextRender]_vars

\* C36: whenever numeric-input mode is active, the frame draw_overlays
\* returns contains the prompt banner, whatever the counts and thresholds
\* are, overflow included.
C36_PromptRendered ==
    (input_mode /\ rd_frame # {}) => "prompt" \in rd_frame

(***************************************************************************)
(* Claims about the extracted region, continued                            *)
(***************************************************************************)
\* The bounding rectangle of the polygon cut to the frame of img_w x img_h
\* pixels: its left, top, width and height (none positive when they do not
\* meet).
BoxInFrame(img_w, img_h, polygon) ==
    LET b == boundingRect(polygon)
        left == PyMax(0, b.x)
        top == PyMax(0, b.y)
    IN [offset |-> <<left, top>>,
        w |-> PyMin(b.x + b.w, img_w) - left,
        h |-> PyMin(b.y + b.h, img_h) - top]

\* C37: for every polygon of at least 3 points, extract_roi_region returns
\* no region, or a crop whose offset and size are those of the polygon's
\* bounding rectangle cut to the frame, also when the rectangle starts at
\* negative coordinates.
C37_CropIsBoxInFrame ==
    (ex_region # <<>> /\ Len(ex_polygon) >= 3 /\ ~ex_region[1].none)
        => LET r == ex_region[1]
               c == BoxInFrame(FrameSize, FrameSize, ex_polygon)
           IN  r.offset = c.offset /\ r.w = c.w /\ r.h = c.h

(***************************************************************************)
(* Claims about the drag selection                                         *)
(***************************************************************************)
\* C38: whenever a vertex is selected for dragging, the selected polygon
\* index and point index address an existing vertex of the committed
\* polygons, after any sequence of pointer events, keys and loads; so a
\* pointer move never indexes out of range.
C38_SelectionAddressesVertex ==
    selected_polygon # -1
      => (/\ selected_polygon \in 0..(Len(polygons) - 1)
          /\ drag_point_index \in 0..(Len(polygons[selected_polygon + 1]) - 1))

(***************************************************************************)
(* Claims about the orchestrator's exit                                    *)
(***************************************************************************)
\* C39: whenever detect() has exited for a live source, by a propagated
\* error or by the user's quit raised from the output sink, the stream
\* source it started has been stopped.
C39_ExitStopsStream ==
    (webcam /\ dpc \in {"caught", "sleep", "returned", "ended"})
        => ds # "started"

(***************************************************************************)
(* Claims about the order of an alert's side effects                       *)
(***************************************************************************)
\* C40: on a fired alert the local save of the evidence image is over, done
\* or failed, when the alert record starts to be enqueued and when the email
\* task is started; of the image's handling only the upload may still be
\* running then.
C40_SavedBeforeNotified ==
    [][/\ (dpc = "screenshot" /\ dpc' = "push")
            => (/\ side_effects["persist"] = "inline"
                /\ side_effects'["persist"] = "idle"
                /\ side_effects'["enqueue"] = "inline")
       /\ (dpc = "push" /\ dpc' = "publish")
            => (/\ side_effects["persist"] = "idle"
                /\ side_effects'["persist"] = "idle"
                /\ side_effects'["enqueue"] = "idle")]_vars

\* C40 witness: the email task of a fired alert has been started with the
\* image saved and its upload still in flight.
C40_Witness ==
    /\ alert_fired
    /\ dpc = "publish"
    /\ side_effects = [e \in SideEffects |->
                         IF e \in {"upload", "email"} THEN "background" ELSE "idle"]

====
